---------------------------- MODULE Spec2Model ----------------------------
(***************************************************************************)
(* A model of src/plugin/LHUB.py, the LogicHub menu-bar plugin.            *)
(*                                                                         *)
(* One behaviour of Spec is one run of the script: main() parses the       *)
(* arguments, loads the configuration, constructs the Actions object       *)
(* (status-bar line, menu lines, dispatch table), and then lists the       *)
(* actions or executes the plugin.  Text is a sequence of one-character    *)
(* strings, so that re.sub(r'\W', "_", ...), strip(), lower() and the      *)
(* other text steps are computed character by character.  The clipboard,   *)
(* the notifications and standard output are the run's observable effects  *)
(* and are logged in the order the code performs them.                     *)
(*                                                                         *)
(* SpecPretty is a second specification for the pure function              *)
(* Actions.pretty_print_sql: it draws a SQL text and a wrap setting and    *)
(* applies the function once and then once more to its own output.         *)
(***************************************************************************)
EXTENDS Integers, Sequences, FiniteSets, TLC

----------------------------------------------------------------------------
(* Characters.  Python's str methods and the re module classify characters; *)
(* the classes below are those of the ASCII characters the model uses.      *)

LowerLetters ==
  <<"a","b","c","d","e","f","g","h","i","j","k","l","m","n","o","p","q","r",
    "s","t","u","v","w","x","y","z">>

UpperLetters ==
  <<"A","B","C","D","E","F","G","H","I","J","K","L","M","N","O","P","Q","R",
    "S","T","U","V","W","X","Y","Z">>

Digits ==
  <<"0","1","2","3","4","5","6","7","8","9">>

\* The characters in code-point order, as Python's sorted() compares strings.
\* "SOH" and "STX" stand for the control characters chr(1) and chr(2), and
\* "TICK" for the back quote.
CodeOrder ==
  <<"SOH","STX","\t","\n","\r"," ","!","\"","%","&","'","(",")","*","+",",","-",".","/">>
  \o Digits \o <<":",";","<","=",">","?","@">> \o UpperLetters
  \o <<"[","\\","]","^","_","TICK">> \o LowerLetters \o <<"{","|","}","~">>

Range(s) == {s[i] : i \in DOMAIN s}

DigitChars == Range(Digits)

LowerChars == Range(LowerLetters)

UpperChars == Range(UpperLetters)

WordChars == LowerChars \cup UpperChars \cup DigitChars \cup {"_"}

IsDigit(c) == c \in DigitChars

\* \w of the re module on str: letters, digits and the underscore.
IsWord(c) == c \in WordChars

\* \s of the re module, and the characters str.strip() and str.split() remove.
IsSpace(c) == c \in {" ", "\t", "\n", "\r"}

IndexOf(seq, c) == CHOOSE i \in DOMAIN seq : seq[i] = c

CodePoints == [c \in Range(CodeOrder) |-> IndexOf(CodeOrder, c)]

\* The rank of a character in code-point order.
Ord(c) == CodePoints[c]

LowerChar(c) ==
  IF c \in UpperChars THEN LowerLetters[IndexOf(UpperLetters, c)] ELSE c

UpperChar(c) ==
  IF c \in LowerChars THEN UpperLetters[IndexOf(LowerLetters, c)] ELSE c

\* str.lower() and str.upper()
Lower(s) == [i \in DOMAIN s |-> LowerChar(s[i])]

Upper(s) == [i \in DOMAIN s |-> UpperChar(s[i])]

RECURSIVE LStrip(_)
LStrip(s) == IF s # <<>> /\ IsSpace(Head(s)) THEN LStrip(Tail(s)) ELSE s

RECURSIVE RStrip(_)
RStrip(s) ==
  IF s # <<>> /\ IsSpace(s[Len(s)]) THEN RStrip(SubSeq(s, 1, Len(s) - 1)) ELSE s

\* str.strip()
Strip(s) == LStrip(RStrip(s))

\* str.replace(c, "") for one character c
RemoveChar(s, c) == SelectSeq(s, LAMBDA x : x # c)

\* s < t in Python's string order, given that s and t agree before position i
RECURSIVE StrLessFrom(_, _, _)
StrLessFrom(s, t, i) ==
  IF i > Len(t) THEN FALSE
  ELSE IF i > Len(s) THEN TRUE
  ELSE IF s[i] = t[i] THEN StrLessFrom(s, t, i + 1)
  ELSE Ord(s[i]) < Ord(t[i])

StrLess(s, t) == StrLessFrom(s, t, 1)

\* A listing in descending order.
SortedDescending(S) ==
  LET rank == [x \in S |-> Cardinality({y \in S : StrLess(x, y)})]
  IN  [i \in 1..Cardinality(S) |-> CHOOSE x \in S : rank[x] = i - 1]

\* sorted(S) for a set S of strings: the i-th element is the one with i - 1
\* elements of S below it.
Sorted(S) ==
  LET rank == [x \in S |-> Cardinality({y \in S : StrLess(y, x)})]
  IN  [i \in 1..Cardinality(S) |-> CHOOSE x \in S : rank[x] = i - 1]

\* A sanitizer that also drops a parenthesis and what follows it.
SanitizeBeforeParenthesis(s) ==
  LET opens == {i \in DOMAIN s : s[i] = "("}
      n == IF opens = {} THEN Len(s) ELSE (CHOOSE i \in opens : \A j \in opens : i <= j) - 1
  IN  [i \in 1..n |-> IF IsWord(s[i]) THEN s[i] ELSE "_"]

\* A substitution that also replaces the underscore, by "x".
SanitizeUnderscoresToo(s) ==
  [i \in DOMAIN s |-> IF s[i] = "_" THEN "x" ELSE IF IsWord(s[i]) THEN s[i] ELSE "_"]

\* re.sub(r'\W', "_", s)
Sanitize(s) == [i \in DOMAIN s |-> IF IsWord(s[i]) THEN s[i] ELSE "_"]

Drop(s, n) == SubSeq(s, n + 1, Len(s))

Take(s, n) == SubSeq(s, 1, n)

StartsWith(s, p) == Len(s) >= Len(p) /\ Take(s, Len(p)) = p

\* str.replace(old, new), old not empty
RECURSIVE Replace(_, _, _)
Replace(s, old, new) ==
  IF s = <<>> THEN <<>>
  ELSE IF StartsWith(s, old) THEN new \o Replace(Drop(s, Len(old)), old, new)
  ELSE <<Head(s)>> \o Replace(Tail(s), old, new)

\* old in s
Contains(s, old) == \E i \in 0..(Len(s) - Len(old)) : StartsWith(Drop(s, i), old)

----------------------------------------------------------------------------
(* The inputs of a run: the command line, the user's ini file, the files   *)
(* and the OS theme, and the text in the clipboard.                         *)

\* The number of argument texts, beyond the fixed ones, that name no action.
MaxUnknownArgs == 1

\* The longest run of "x" used as an argument that names no action.
UnknownArg(n) == [i \in 1..n |-> "x"]

\* A Python value that is None or a str: <<>> is None, <<s>> is the str s.
None == <<>>

Some(s) == <<s>>

IsNone(v) == v = <<>>

\* Python's truth value of a None-or-str value: None and "" are false.
Truthy(v) == ~IsNone(v) /\ v[1] # <<>>

\* Texts used as literals by the code.
\* Values a user may write in the ini file.
\* The ini files of the model, as ConfigObj reads them: a mapping from section
\* name to a mapping from key to text.  A missing file and an empty file both
\* give the empty mapping.
EmptyIni == [s \in {} |-> <<>>]

EmptySection == [k \in {} |-> <<>>]

IniFiles ==
  << EmptyIni,
     [other |-> [repo_path |-> <<"/","r">>]],
     [main |-> EmptySection],
     [main |-> [repo_path |-> <<>>]],
     [main |-> [repo_path |-> <<"/","r">>]],
     [main |-> [repo_path |-> <<"/","r">>, clipboard_update_notifications |-> <<" ","Y","e","s"," ">>,
                status_bar_style |-> <<"t","e","x","t">>, status_bar_text_color |-> <<"r","e","d">>]],
     [main |-> [repo_path |-> <<"/","r">>, clipboard_update_notifications |-> <<"n","o">>,
                status_bar_style |-> <<"b","o","t","h">>, status_bar_icon_size |-> <<"x","l">>,
                debug_output_enabled |-> <<"t","r","u","e">>]],
     [main |-> [repo_path |-> <<"/","r">>, clipboard_update_notifications |-> <<"o","n">>,
                status_bar_style |-> <<"c","u","s","t","o","m">>, status_bar_label |-> <<"L","H",":","|"," ","c","o","l","o","r","=","r","e","d">>,
                os_theme |-> <<"D","a","r","k">>]],
     [main |-> [repo_path |-> <<"/","r">>, status_bar_icon_size |-> <<"h","u","g","e">>]]
  >>

\* dict.get(key, default)
Get(d, k, default) == IF k \in DOMAIN d THEN d[k] ELSE default

\* A value that is a bool or a str, as Reusable.convert_boolean returns it.
Bool(b) == [isBool |-> TRUE, bool |-> b, str |-> <<>>]

Str(s) == [isBool |-> FALSE, bool |-> FALSE, str |-> s]

\* Python's truth value of a bool-or-str value.
IsTrue(v) == IF v.isBool THEN v.bool ELSE v.str # <<>>

convert_boolean(_var) ==
  IF ~_var.isBool
  THEN LET _var2 == Lower(Strip(_var.str))
       IN  IF _var2 \in {<<"y","e","s">>, <<"t","r","u","e">>} THEN Bool(TRUE)
           ELSE IF _var2 \in {<<"n","o">>, <<"f","a","l","s","e">>} THEN Bool(FALSE)
           ELSE _var
  ELSE _var

\* Config.get_config_main: the typed record, with the defaults of the code.
\* env_theme is what `defaults read -g AppleInterfaceStyle` printed, or "Light".
get_config_main(kwargs, env_theme) ==
  [ repo_path |-> IF "repo_path" \in DOMAIN kwargs THEN Some(kwargs.repo_path) ELSE None,
    os_theme |-> Get(kwargs, "os_theme", env_theme),
    status_bar_style |-> Get(kwargs, "status_bar_style", <<"l","o","g","o">>),
    status_bar_label |-> Get(kwargs, "status_bar_label", <<"L","H","U","B">>),
    status_bar_icon_size |-> Get(kwargs, "status_bar_icon_size", <<"l","a","r","g","e">>),
    status_bar_text_color |-> Get(kwargs, "status_bar_text_color", <<"b","l","a","c","k">>),
    clipboard_update_notifications |->
      convert_boolean(IF "clipboard_update_notifications" \in DOMAIN kwargs
                      THEN Str(kwargs.clipboard_update_notifications) ELSE Bool(FALSE)),
    debug_output_enabled |->
      convert_boolean(IF "debug_output_enabled" \in DOMAIN kwargs
                      THEN Str(kwargs.debug_output_enabled) ELSE Bool(FALSE)) ]

\* The configuration before Config() has run.
NoConfig == get_config_main(EmptySection, <<"L","i","g","h","t">>)

\* logos_by_os_theme[os_theme][status_bar_icon_size] raises KeyError unless both
\* keys exist.
LogoKeysExist(main) ==
  /\ main.os_theme \in {<<"D","a","r","k">>, <<"L","i","g","h","t">>}
  /\ main.status_bar_icon_size \in {<<"s","m","a","l","l">>, <<"l","a","r","g","e">>, <<"x","l">>}

\* A Config that does not look at repo_path.
ConfigOutcomeWithoutRepoPath(file, env_theme) ==
  IF DOMAIN file = {} THEN "not_found"
  ELSE LET main == get_config_main(Get(file, "main", EmptySection), env_theme)
       IN  IF ~LogoKeysExist(main) THEN "KeyError" ELSE "ok"

\* Config.__post_init__: "not_found" and "no_repo_path" end in sys.exit(1);
\* "KeyError" is raised by the logo lookup and nothing catches it.
ConfigOutcome(file, env_theme) ==
  IF DOMAIN file = {} THEN "not_found"
  ELSE LET main == get_config_main(Get(file, "main", EmptySection), env_theme)
       IN  IF ~Truthy(main.repo_path) THEN "no_repo_path"
           ELSE IF ~LogoKeysExist(main) THEN "KeyError"
           ELSE "ok"

----------------------------------------------------------------------------
(* The statements of Actions.__init__ after set_status_bar_display, in      *)
(* order: the menu sections, the texts and the make_action calls.           *)

InitProgram ==
  <<
    [op |-> "add_menu_section", name |-> <<"L","o","g","i","c","H","u","b">>, action |-> "None", menu_depth |-> 0, alternate |-> FALSE, keyboard_shortcut |-> "", image |-> TRUE],
    [op |-> "print_in_menu", name |-> <<"L","Q","L",":"," ","S","Q","L"," ","&"," ","W","e","b"," ","U","I">>, action |-> "None", menu_depth |-> 0, alternate |-> FALSE, keyboard_shortcut |-> "", image |-> FALSE],
    [op |-> "add_menu_section", name |-> <<"S","Q","L">>, action |-> "None", menu_depth |-> 1, alternate |-> FALSE, keyboard_shortcut |-> "", image |-> FALSE],
    [op |-> "make_action", name |-> <<"P","r","e","t","t","y"," ","P","r","i","n","t"," ","S","Q","L">>, action |-> "logichub_pretty_print_sql", menu_depth |-> 1, alternate |-> FALSE, keyboard_shortcut |-> "CmdOrCtrl+shift+p", image |-> FALSE],
    [op |-> "make_action", name |-> <<"P","r","e","t","t","y"," ","P","r","i","n","t"," ","S","Q","L"," ","o","p","t","i","o","n","s">>, action |-> "None", menu_depth |-> 1, alternate |-> TRUE, keyboard_shortcut |-> "", image |-> FALSE],
    [op |-> "make_action", name |-> <<"W","r","a","p","p","e","d"," ","a","t"," ","8","0"," ","c","h","a","r","a","c","t","e","r","s">>, action |-> "logichub_pretty_print_sql_wrapped", menu_depth |-> 2, alternate |-> FALSE, keyboard_shortcut |-> "", image |-> FALSE],
    [op |-> "make_action", name |-> <<"C","o","m","p","a","c","t">>, action |-> "logichub_pretty_print_sql_compact", menu_depth |-> 2, alternate |-> FALSE, keyboard_shortcut |-> "", image |-> FALSE],
    [op |-> "make_action", name |-> <<"T","a","b","s"," ","t","o"," ","c","o","m","m","a","s">>, action |-> "logichub_tabs_to_columns", menu_depth |-> 1, alternate |-> FALSE, keyboard_shortcut |-> "CmdOrCtrl+shift+t", image |-> FALSE],
    [op |-> "make_action", name |-> <<"T","a","b","s"," ","t","o"," ","c","o","m","m","a","s"," ","(","f","o","r","c","e"," ","l","o","w","e","r","c","a","s","e",")">>, action |-> "logichub_tabs_to_columns_lowercase", menu_depth |-> 1, alternate |-> TRUE, keyboard_shortcut |-> "", image |-> FALSE],
    [op |-> "make_action", name |-> <<"T","a","b","s"," ","t","o"," ","c","o","m","m","a","s"," ","(","s","o","r","t","e","d",")">>, action |-> "logichub_tabs_to_columns_sorted", menu_depth |-> 1, alternate |-> FALSE, keyboard_shortcut |-> "", image |-> FALSE],
    [op |-> "make_action", name |-> <<"T","a","b","s"," ","t","o"," ","c","o","m","m","a","s"," ","(","s","o","r","t","e","d",","," ","f","o","r","c","e"," ","l","o","w","e","r","c","a","s","e",")">>, action |-> "logichub_tabs_to_columns_sorted_lowercase", menu_depth |-> 1, alternate |-> TRUE, keyboard_shortcut |-> "", image |-> FALSE],
    [op |-> "make_action", name |-> <<"T","a","b","s"," ","t","o"," ","c","o","m","m","a","s"," ","&"," ","q","u","o","t","e","s">>, action |-> "logichub_tabs_to_columns_and_quotes", menu_depth |-> 1, alternate |-> FALSE, keyboard_shortcut |-> "", image |-> FALSE],
    [op |-> "make_action", name |-> <<"T","a","b","s"," ","t","o"," ","c","o","m","m","a","s"," ","&"," ","q","u","o","t","e","s"," ","(","f","o","r","c","e"," ","l","o","w","e","r","c","a","s","e",")">>, action |-> "logichub_tabs_to_columns_and_quotes_lowercase", menu_depth |-> 1, alternate |-> TRUE, keyboard_shortcut |-> "", image |-> FALSE],
    [op |-> "make_action", name |-> <<"T","a","b","s"," ","t","o"," ","c","o","m","m","a","s"," ","&"," ","q","u","o","t","e","s"," ","(","s","o","r","t","e","d",")">>, action |-> "logichub_tabs_to_columns_and_quotes_sorted", menu_depth |-> 1, alternate |-> FALSE, keyboard_shortcut |-> "", image |-> FALSE],
    [op |-> "make_action", name |-> <<"T","a","b","s"," ","t","o"," ","c","o","m","m","a","s"," ","&"," ","q","u","o","t","e","s"," ","(","s","o","r","t","e","d",","," ","f","o","r","c","e"," ","l","o","w","e","r","c","a","s","e",")">>, action |-> "logichub_tabs_to_columns_and_quotes_sorted_lowercase", menu_depth |-> 1, alternate |-> TRUE, keyboard_shortcut |-> "", image |-> FALSE],
    [op |-> "make_action", name |-> <<"S","Q","L"," ","N","e","w"," ","(","f","r","o","m"," ","t","a","b","l","e"," ","n","a","m","e",")">>, action |-> "logichub_sql_start_from_table_name", menu_depth |-> 1, alternate |-> FALSE, keyboard_shortcut |-> "", image |-> FALSE],
    [op |-> "make_action", name |-> <<"S","Q","L"," ","N","e","w"," ","(","w","i","t","h","o","u","t"," ","t","a","b","l","e"," ","n","a","m","e",")">>, action |-> "logichub_sql_start_without_table_name", menu_depth |-> 1, alternate |-> TRUE, keyboard_shortcut |-> "", image |-> FALSE],
    [op |-> "make_action", name |-> <<"S","Q","L"," ","N","e","w"," ","w","i","t","h"," ","I","n","t","e","g","r","a","t","i","o","n"," ","E","r","r","o","r"," ","C","h","e","c","k"," ","(","f","r","o","m"," ","t","a","b","l","e"," ","n","a","m","e",")">>, action |-> "logichub_sql_start_with_integ_error_check", menu_depth |-> 1, alternate |-> FALSE, keyboard_shortcut |-> "", image |-> FALSE],
    [op |-> "make_action", name |-> <<"S","Q","L"," ","N","e","w"," ","w","i","t","h"," ","I","n","t","e","g","r","a","t","i","o","n"," ","E","r","r","o","r"," ","C","h","e","c","k"," ","(","w","i","t","h","o","u","t"," ","t","a","b","l","e"," ","n","a","m","e",")">>, action |-> "logichub_sql_start_with_integ_error_check_without_table_name", menu_depth |-> 1, alternate |-> TRUE, keyboard_shortcut |-> "", image |-> FALSE],
    [op |-> "make_action", name |-> <<"S","Q","L"," ","S","t","a","r","t"," ","f","r","o","m"," ","s","p","a","c","e","d"," ","s","t","r","i","n","g","s">>, action |-> "logichub_sql_start_from_tabs", menu_depth |-> 1, alternate |-> FALSE, keyboard_shortcut |-> "", image |-> FALSE],
    [op |-> "make_action", name |-> <<"S","Q","L"," ","S","t","a","r","t"," ","f","r","o","m"," ","s","p","a","c","e","d"," ","s","t","r","i","n","g","s"," ","(","s","o","r","t","e","d",")">>, action |-> "logichub_sql_start_from_tabs_sorted", menu_depth |-> 1, alternate |-> FALSE, keyboard_shortcut |-> "", image |-> FALSE],
    [op |-> "make_action", name |-> <<"S","Q","L"," ","S","t","a","r","t"," ","f","r","o","m"," ","s","p","a","c","e","d"," ","s","t","r","i","n","g","s"," ","(","d","i","s","t","i","n","c","t",")">>, action |-> "logichub_sql_start_from_tabs_distinct", menu_depth |-> 1, alternate |-> FALSE, keyboard_shortcut |-> "", image |-> FALSE],
    [op |-> "make_action", name |-> <<"S","Q","L"," ","S","t","a","r","t"," ","f","r","o","m"," ","s","p","a","c","e","d"," ","s","t","r","i","n","g","s"," ","(","j","o","i","n"," ","w","i","t","h"," ","l","e","f","t"," ","c","o","l","u","m","n","s",")">>, action |-> "logichub_sql_start_from_tabs_join_left", menu_depth |-> 1, alternate |-> FALSE, keyboard_shortcut |-> "", image |-> FALSE],
    [op |-> "make_action", name |-> <<"S","Q","L"," ","S","t","a","r","t"," ","f","r","o","m"," ","s","p","a","c","e","d"," ","s","t","r","i","n","g","s"," ","(","j","o","i","n",","," ","l","e","f","t"," ","c","o","l","u","m","n","s"," ","o","n","l","y",")">>, action |-> "logichub_tabs_to_columns_left_join", menu_depth |-> 1, alternate |-> TRUE, keyboard_shortcut |-> "", image |-> FALSE],
    [op |-> "make_action", name |-> <<"S","Q","L"," ","S","t","a","r","t"," ","f","r","o","m"," ","s","p","a","c","e","d"," ","s","t","r","i","n","g","s"," ","(","j","o","i","n"," ","w","i","t","h"," ","r","i","g","h","t"," ","c","o","l","u","m","n","s",")">>, action |-> "logichub_sql_start_from_tabs_join_right", menu_depth |-> 1, alternate |-> FALSE, keyboard_shortcut |-> "", image |-> FALSE],
    [op |-> "make_action", name |-> <<"S","Q","L"," ","S","t","a","r","t"," ","f","r","o","m"," ","s","p","a","c","e","d"," ","s","t","r","i","n","g","s"," ","(","j","o","i","n",","," ","r","i","g","h","t"," ","c","o","l","u","m","n","s"," ","o","n","l","y",")">>, action |-> "logichub_tabs_to_columns_right_join", menu_depth |-> 1, alternate |-> TRUE, keyboard_shortcut |-> "", image |-> FALSE],
    [op |-> "make_action", name |-> <<"C","l","i","p","b","o","a","r","d"," ","t","o"," ","L","H","-","f","r","i","e","n","d","l","y"," ","s","t","a","t","i","c"," ","s","t","r","i","n","g">>, action |-> "action_logichub_clipboard_to_static_string", menu_depth |-> 1, alternate |-> FALSE, keyboard_shortcut |-> "", image |-> FALSE],
    [op |-> "add_menu_section", name |-> <<"S","p","a","r","k"," ","C","o","m","m","a","n","d","s"," ","(","f","r","o","m"," ","c","l","i","p","b","o","a","r","d",")">>, action |-> "None", menu_depth |-> 1, alternate |-> FALSE, keyboard_shortcut |-> "", image |-> FALSE],
    [op |-> "make_action", name |-> <<"f","r","o","m","_","j","s","o","n",":"," ","f","u","l","l">>, action |-> "action_spark_from_json", menu_depth |-> 1, alternate |-> FALSE, keyboard_shortcut |-> "", image |-> FALSE],
    [op |-> "make_action", name |-> <<"f","r","o","m","_","j","s","o","n",":"," ","f","u","l","l",","," ","a","l","l","o","w"," ","i","n","v","a","l","i","d"," ","k","e","y","s">>, action |-> "action_spark_from_json_allow_invalid", menu_depth |-> 1, alternate |-> TRUE, keyboard_shortcut |-> "", image |-> FALSE],
    [op |-> "make_action", name |-> <<"f","r","o","m","_","j","s","o","n",":"," ","n","o"," ","r","e","c","u","r","s","i","o","n">>, action |-> "action_spark_from_json_non_recursive", menu_depth |-> 1, alternate |-> FALSE, keyboard_shortcut |-> "", image |-> FALSE],
    [op |-> "make_action", name |-> <<"f","r","o","m","_","j","s","o","n",":"," ","n","o"," ","r","e","c","u","r","s","i","o","n",","," ","a","l","l","o","w"," ","i","n","v","a","l","i","d"," ","k","e","y","s">>, action |-> "action_spark_from_json_non_recursive_allow_invalid", menu_depth |-> 1, alternate |-> TRUE, keyboard_shortcut |-> "", image |-> FALSE],
    [op |-> "make_action", name |-> <<"s","c","h","e","m","a","_","o","f","_","j","s","o","n",":"," ","C","r","e","a","t","e"," ","c","o","l","u","m","n"," ","f","r","o","m"," ","J","S","O","N"," ","c","l","i","p","b","o","a","r","d">>, action |-> "action_json_to_schema_of_json", menu_depth |-> 1, alternate |-> FALSE, keyboard_shortcut |-> "", image |-> FALSE],
    [op |-> "add_menu_section", name |-> <<"D","S","L"," ","C","o","m","m","a","n","d","s">>, action |-> "None", menu_depth |-> 1, alternate |-> FALSE, keyboard_shortcut |-> "", image |-> FALSE],
    [op |-> "make_action", name |-> <<"R","e","f","o","r","m","a","t"," ","D","S","L"," ","c","o","m","m","a","n","d"," ","[","s","i","m","p","l","e","]">>, action |-> "logichub_dsl_reformat_simple", menu_depth |-> 1, alternate |-> FALSE, keyboard_shortcut |-> "CmdOrCtrl+shift+d", image |-> FALSE],
    [op |-> "make_action", name |-> <<"B","E","T","A",":"," ","R","e","f","o","r","m","a","t"," ","D","S","L"," ","c","o","m","m","a","n","d"," ","[","p","r","e","t","t","y"," ","p","r","i","n","t"," ","S","Q","L","]">>, action |-> "logichub_dsl_reformat_pretty", menu_depth |-> 1, alternate |-> FALSE, keyboard_shortcut |-> "CmdOrCtrl+OptionOrAlt+d", image |-> FALSE],
    [op |-> "make_action", name |-> <<"I","n","t","e","g","r","a","t","i","o","n"," ","E","r","r","o","r"," ","C","h","e","c","k",":"," ","f","o","r","c","e","F","a","i","l"," ","a","n","d"," ","d","r","o","p","C","o","l","u","m","n","s">>, action |-> "logichub_dsl_integ_error_check_forceFail_and_dropColumns", menu_depth |-> 1, alternate |-> FALSE, keyboard_shortcut |-> "", image |-> FALSE],
    [op |-> "make_action", name |-> <<"I","n","t","e","g","r","a","t","i","o","n"," ","E","r","r","o","r"," ","C","h","e","c","k",":"," ","f","o","r","c","e","F","a","i","l"," ","a","n","d"," ","d","r","o","p","C","o","l","u","m","n","s"," ","(","w","i","t","h","o","u","t"," ","r","e","s","u","l","t",")">>, action |-> "logichub_dsl_integ_error_check_forceFail_and_dropColumns_without_result", menu_depth |-> 1, alternate |-> TRUE, keyboard_shortcut |-> "", image |-> FALSE],
    [op |-> "make_action", name |-> <<"A","d","d"," ","b","a","t","c","h"," ","i","n","f","o"," ","a","n","d"," ","d","r","o","p"," ","t","e","m","p","o","r","a","r","y"," ","c","o","l","u","m","n"," ","(","f","r","o","m"," ","t","a","b","l","e"," ","n","a","m","e",")">>, action |-> "logichub_dsl_batch_info", menu_depth |-> 1, alternate |-> FALSE, keyboard_shortcut |-> "", image |-> FALSE],
    [op |-> "add_menu_section", name |-> <<"W","e","b"," ","U","I">>, action |-> "None", menu_depth |-> 1, alternate |-> FALSE, keyboard_shortcut |-> "", image |-> FALSE],
    [op |-> "make_action", name |-> <<"E","v","e","n","t"," ","F","i","l","e"," ","U","R","L"," ","f","r","o","m"," ","F","i","l","e"," ","N","a","m","e">>, action |-> "logichub_event_file_url_from_file_name", menu_depth |-> 1, alternate |-> FALSE, keyboard_shortcut |-> "", image |-> FALSE],
    [op |-> "make_action", name |-> <<"E","v","e","n","t"," ","F","i","l","e"," ","U","R","L"," ","p","a","t","h"," ","(","s","t","a","t","i","c",")">>, action |-> "logichub_event_file_url_static", menu_depth |-> 1, alternate |-> TRUE, keyboard_shortcut |-> "", image |-> FALSE],
    [op |-> "print_in_menu", name |-> <<"L","Q","L",":"," ","O","p","e","r","a","t","o","r","s">>, action |-> "None", menu_depth |-> 0, alternate |-> FALSE, keyboard_shortcut |-> "", image |-> FALSE],
    [op |-> "add_menu_section", name |-> <<"G","e","n","e","r","a","l">>, action |-> "None", menu_depth |-> 1, alternate |-> FALSE, keyboard_shortcut |-> "", image |-> FALSE],
    [op |-> "make_action", name |-> <<"a","d","d","E","x","e","c","u","t","i","o","n","M","e","t","a","d","a","t","a">>, action |-> "logichub_operator_start_addExecutionMetadata", menu_depth |-> 1, alternate |-> FALSE, keyboard_shortcut |-> "", image |-> FALSE],
    [op |-> "make_action", name |-> <<"d","r","o","p","C","o","l","u","m","n","s">>, action |-> "logichub_operator_start_dropColumns", menu_depth |-> 1, alternate |-> FALSE, keyboard_shortcut |-> "", image |-> FALSE],
    [op |-> "make_action", name |-> <<"e","n","s","u","r","e","T","a","b","l","e","H","a","s","C","o","l","u","m","n","s">>, action |-> "logichub_operator_start_ensureTableHasColumns", menu_depth |-> 1, alternate |-> FALSE, keyboard_shortcut |-> "", image |-> FALSE],
    [op |-> "make_action", name |-> <<"f","i","e","l","d","n","a","m","e","s","H","i","s","t","o","g","r","a","m">>, action |-> "logichub_operator_start_fieldnamesHistogram", menu_depth |-> 1, alternate |-> FALSE, keyboard_shortcut |-> "", image |-> FALSE],
    [op |-> "make_action", name |-> <<"f","e","t","c","h","A","l","e","r","t","s"," ","(","w","i","t","h"," ","p","a","r","e","n","t"," ","t","a","b","l","e",")">>, action |-> "logichub_operator_start_fetchAlerts_with_table", menu_depth |-> 1, alternate |-> FALSE, keyboard_shortcut |-> "", image |-> FALSE],
    [op |-> "make_action", name |-> <<"f","e","t","c","h","A","l","e","r","t","s"," ","(","w","i","t","h","o","u","t"," ","p","a","r","e","n","t"," ","t","a","b","l","e",")">>, action |-> "logichub_operator_start_fetchAlerts_no_table", menu_depth |-> 1, alternate |-> FALSE, keyboard_shortcut |-> "", image |-> FALSE],
    [op |-> "make_action", name |-> <<"f","o","r","c","e","F","a","i","l">>, action |-> "logichub_operator_start_forceFail", menu_depth |-> 1, alternate |-> FALSE, keyboard_shortcut |-> "", image |-> FALSE],
    [op |-> "make_action", name |-> <<"g","e","t","F","i","e","l","d","n","a","m","e","s">>, action |-> "logichub_operator_start_getFieldnames", menu_depth |-> 1, alternate |-> FALSE, keyboard_shortcut |-> "", image |-> FALSE],
    [op |-> "make_action", name |-> <<"j","s","o","n","T","o","C","o","l","u","m","n","s">>, action |-> "logichub_operator_start_jsonToColumns", menu_depth |-> 1, alternate |-> FALSE, keyboard_shortcut |-> "", image |-> FALSE],
    [op |-> "make_action", name |-> <<"u","n","i","o","n","A","l","l">>, action |-> "logichub_operator_start_unionAll", menu_depth |-> 1, alternate |-> FALSE, keyboard_shortcut |-> "", image |-> FALSE],
    [op |-> "make_action", name |-> <<"w","a","i","t","F","o","r","M","i","l","l","i","s">>, action |-> "logichub_operator_start_waitForMillis", menu_depth |-> 1, alternate |-> FALSE, keyboard_shortcut |-> "", image |-> FALSE],
    [op |-> "add_menu_section", name |-> <<"J","o","i","n","s">>, action |-> "None", menu_depth |-> 1, alternate |-> FALSE, keyboard_shortcut |-> "", image |-> FALSE],
    [op |-> "make_action", name |-> <<"a","u","t","o","J","o","i","n">>, action |-> "logichub_operator_start_autoJoin", menu_depth |-> 1, alternate |-> FALSE, keyboard_shortcut |-> "", image |-> FALSE],
    [op |-> "make_action", name |-> <<"a","u","t","o","J","o","i","n","T","a","b","l","e","s">>, action |-> "logichub_operator_start_autoJoinTables", menu_depth |-> 1, alternate |-> FALSE, keyboard_shortcut |-> "", image |-> FALSE],
    [op |-> "make_action", name |-> <<"j","o","i","n","T","a","b","l","e","s">>, action |-> "logichub_operator_start_joinTables", menu_depth |-> 1, alternate |-> FALSE, keyboard_shortcut |-> "", image |-> FALSE],
    [op |-> "add_menu_section", name |-> <<"C","u","s","t","o","m"," ","L","i","s","t","s">>, action |-> "None", menu_depth |-> 1, alternate |-> FALSE, keyboard_shortcut |-> "", image |-> FALSE],
    [op |-> "make_action", name |-> <<"a","p","p","e","n","d","T","o","L","i","s","t">>, action |-> "logichub_operator_start_appendToList", menu_depth |-> 1, alternate |-> FALSE, keyboard_shortcut |-> "", image |-> FALSE],
    [op |-> "make_action", name |-> <<"a","p","p","e","n","d","T","o","L","i","s","t","I","f","N","o","t","E","x","i","s","t">>, action |-> "logichub_operator_start_appendToListIfNotExist", menu_depth |-> 1, alternate |-> FALSE, keyboard_shortcut |-> "", image |-> FALSE],
    [op |-> "make_action", name |-> <<"l","o","a","d","L","i","s","t"," ","(","w","i","t","h"," ","f","i","l","t","e","r",")">>, action |-> "logichub_operator_start_loadList_with_filter", menu_depth |-> 1, alternate |-> FALSE, keyboard_shortcut |-> "", image |-> FALSE],
    [op |-> "make_action", name |-> <<"l","o","a","d","L","i","s","t"," ","(","n","o"," ","f","i","l","t","e","r",")">>, action |-> "logichub_operator_start_loadList_without_filter", menu_depth |-> 1, alternate |-> FALSE, keyboard_shortcut |-> "", image |-> FALSE],
    [op |-> "make_action", name |-> <<"q","u","e","r","y","F","r","o","m","L","i","s","t">>, action |-> "logichub_operator_start_queryFromList", menu_depth |-> 1, alternate |-> FALSE, keyboard_shortcut |-> "", image |-> FALSE],
    [op |-> "make_action", name |-> <<"r","e","p","l","a","c","e","L","i","s","t">>, action |-> "logichub_operator_start_replaceList", menu_depth |-> 1, alternate |-> FALSE, keyboard_shortcut |-> "", image |-> FALSE],
    [op |-> "make_action", name |-> <<"s","e","l","e","c","t","i","v","e","l","y","D","e","l","e","t","e","F","r","o","m","L","i","s","t">>, action |-> "logichub_operator_start_selectivelyDeleteFromList", menu_depth |-> 1, alternate |-> FALSE, keyboard_shortcut |-> "", image |-> FALSE],
    [op |-> "print_in_menu", name |-> <<"L","o","g","i","c","H","u","b"," ","T","r","o","u","b","l","e","s","h","o","o","t","i","n","g">>, action |-> "None", menu_depth |-> 0, alternate |-> FALSE, keyboard_shortcut |-> "", image |-> FALSE],
    [op |-> "make_action", name |-> <<"S","a","n","i","t","i","z","e"," ","p","l","a","y","b","o","o","k"," ","J","S","O","N"," ","f","o","r"," ","c","o","m","p","a","r","i","s","o","n"," ","(","f","r","o","m"," ","c","l","i","p","b","o","a","r","d",")">>, action |-> "sanitize_logichub_json", menu_depth |-> 1, alternate |-> FALSE, keyboard_shortcut |-> "", image |-> FALSE],
    [op |-> "add_menu_section", name |-> <<"r","u","n","t","i","m","e","S","t","a","t","s"," ","(","f","r","o","m"," ","b","a","t","c","h"," ","s","t","a","t","s"," ","j","s","o","n"," ","i","n"," ","c","l","i","p","b","o","a","r","d",")">>, action |-> "None", menu_depth |-> 1, alternate |-> FALSE, keyboard_shortcut |-> "", image |-> FALSE],
    [op |-> "make_action", name |-> <<"R","u","n","t","i","m","e"," ","S","t","a","t","s"," ","S","o","r","t"," ","J","S","O","N">>, action |-> "logichub_runtime_stats_to_json", menu_depth |-> 1, alternate |-> FALSE, keyboard_shortcut |-> "", image |-> FALSE],
    [op |-> "make_action", name |-> <<"R","u","n","t","i","m","e"," ","S","t","a","t","s"," ","t","o"," ","C","S","V">>, action |-> "logichub_runtime_stats_to_csv", menu_depth |-> 1, alternate |-> FALSE, keyboard_shortcut |-> "", image |-> FALSE],
    [op |-> "print_in_menu", name |-> <<"S","h","e","l","l",":"," ","H","o","s","t">>, action |-> "None", menu_depth |-> 0, alternate |-> FALSE, keyboard_shortcut |-> "", image |-> FALSE],
    [op |-> "make_action", name |-> <<"A","d","d"," ","m","y","s","e","l","f"," ","t","o"," ","d","o","c","k","e","r"," ","g","r","o","u","p">>, action |-> "shell_lh_host_fix_add_self_to_docker_group", menu_depth |-> 1, alternate |-> FALSE, keyboard_shortcut |-> "", image |-> FALSE],
    [op |-> "make_action", name |-> <<"O","w","n"," ","I","n","s","t","a","n","c","e"," ","V","e","r","s","i","o","n">>, action |-> "logichub_shell_own_instance_version", menu_depth |-> 1, alternate |-> FALSE, keyboard_shortcut |-> "", image |-> FALSE],
    [op |-> "make_action", name |-> <<"R","e","c","e","n","t"," ","U","I"," ","u","s","e","r"," ","a","c","t","i","v","i","t","y">>, action |-> "logichub_check_recent_user_activity_v2", menu_depth |-> 1, alternate |-> FALSE, keyboard_shortcut |-> "", image |-> FALSE],
    [op |-> "make_action", name |-> <<"R","e","c","e","n","t"," ","U","I"," ","u","s","e","r"," ","a","c","t","i","v","i","t","y"," ","(","O","L","D"," ","V","E","R","S","I","O","N",")">>, action |-> "logichub_check_recent_user_activity_v1", menu_depth |-> 1, alternate |-> TRUE, keyboard_shortcut |-> "", image |-> FALSE],
    [op |-> "make_action", name |-> <<"S","t","o","p"," ","a","n","d"," ","S","t","a","r","t"," ","A","l","l"," ","S","e","r","v","i","c","e","s">>, action |-> "logichub_stop_and_start_services_in_one_line", menu_depth |-> 1, alternate |-> FALSE, keyboard_shortcut |-> "", image |-> FALSE],
    [op |-> "make_action", name |-> <<"I","n","t","e","g","r","a","t","i","o","n"," ","N","a","m","e"," ","f","r","o","m"," ","D","i","g","e","s","t"," ","o","r"," ","C","o","n","t","a","i","n","e","r"," ","N","a","m","e">>, action |-> "logichub_integration_name_from_digest_or_container_name", menu_depth |-> 1, alternate |-> FALSE, keyboard_shortcut |-> "", image |-> FALSE],
    [op |-> "add_menu_section", name |-> <<"F","i","l","e"," ","S","y","s","t","e","m"," ","P","a","t","h","s">>, action |-> "None", menu_depth |-> 1, alternate |-> FALSE, keyboard_shortcut |-> "", image |-> FALSE],
    [op |-> "make_action", name |-> <<"l","h","-","m","o","n","i","t","o","r","i","n","g"," ","r","e","p","o">>, action |-> "shell_lh_host_path_to_lh_monitoring_repo", menu_depth |-> 1, alternate |-> FALSE, keyboard_shortcut |-> "", image |-> FALSE],
    [op |-> "make_action", name |-> <<"n","o","d","e","_","d","a","t","a"," ","c","a","c","h","e">>, action |-> "shell_lh_host_path_to_node_data", menu_depth |-> 1, alternate |-> FALSE, keyboard_shortcut |-> "", image |-> FALSE],
    [op |-> "make_action", name |-> <<"s","e","r","v","i","c","e"," ","c","o","n","t","a","i","n","e","r"," ","d","a","t","a">>, action |-> "shell_lh_host_path_to_service_container_volume", menu_depth |-> 1, alternate |-> FALSE, keyboard_shortcut |-> "", image |-> FALSE],
    [op |-> "print_in_menu", name |-> <<"S","h","e","l","l",":"," ","S","e","r","v","i","c","e"," ","C","o","n","t","a","i","n","e","r">>, action |-> "None", menu_depth |-> 0, alternate |-> FALSE, keyboard_shortcut |-> "", image |-> FALSE],
    [op |-> "make_action", name |-> <<"L","i","s","t"," ","E","d","i","t","e","d"," ","D","e","s","c","r","i","p","t","o","r","s">>, action |-> "lh_service_shell_list_edited_descriptors", menu_depth |-> 1, alternate |-> FALSE, keyboard_shortcut |-> "", image |-> FALSE],
    [op |-> "print_in_menu", name |-> <<"D","o","c","k","e","r">>, action |-> "None", menu_depth |-> 0, alternate |-> FALSE, keyboard_shortcut |-> "", image |-> FALSE],
    [op |-> "make_action", name |-> <<"s","e","r","v","i","c","e"," ","b","a","s","h">>, action |-> "action_docker_service_bash", menu_depth |-> 1, alternate |-> FALSE, keyboard_shortcut |-> "", image |-> FALSE],
    [op |-> "make_action", name |-> <<"p","s","q","l"," ","s","h","e","l","l">>, action |-> "action_docker_psql_shell", menu_depth |-> 1, alternate |-> FALSE, keyboard_shortcut |-> "", image |-> FALSE],
    [op |-> "make_action", name |-> <<"p","s","q","l"," ","q","u","e","r","y"," ","w","i","t","h","o","u","t"," ","s","h","e","l","l">>, action |-> "action_docker_psql_without_shell", menu_depth |-> 1, alternate |-> FALSE, keyboard_shortcut |-> "", image |-> FALSE],
    [op |-> "make_action", name |-> <<"p","s","q","l"," ","q","u","e","r","y"," ","w","i","t","h","o","u","t"," ","s","h","e","l","l"," ","(","q","u","e","r","y"," ","f","r","o","m"," ","c","l","i","p","b","o","a","r","d",")">>, action |-> "action_docker_psql_without_shell_from_clipboard", menu_depth |-> 1, alternate |-> TRUE, keyboard_shortcut |-> "", image |-> FALSE],
    [op |-> "make_action", name |-> <<"p","s","q","l"," ","q","u","e","r","y"," ","w","i","t","h","o","u","t"," ","s","h","e","l","l",","," ","j","s","o","n"," ","o","u","t","p","u","t">>, action |-> "action_docker_psql_without_shell_json", menu_depth |-> 1, alternate |-> FALSE, keyboard_shortcut |-> "", image |-> FALSE],
    [op |-> "make_action", name |-> <<"p","s","q","l"," ","q","u","e","r","y"," ","w","i","t","h","o","u","t"," ","s","h","e","l","l",","," ","j","s","o","n"," ","o","u","t","p","u","t"," ","(","q","u","e","r","y"," ","f","r","o","m"," ","c","l","i","p","b","o","a","r","d",")">>, action |-> "action_docker_psql_without_shell_json_from_clipboard", menu_depth |-> 1, alternate |-> TRUE, keyboard_shortcut |-> "", image |-> FALSE],
    [op |-> "print_in_menu", name |-> <<"D","B",":"," ","P","o","s","t","g","r","e","s">>, action |-> "None", menu_depth |-> 0, alternate |-> FALSE, keyboard_shortcut |-> "", image |-> FALSE],
    [op |-> "add_menu_section", name |-> <<"F","l","o","w","s">>, action |-> "None", menu_depth |-> 1, alternate |-> FALSE, keyboard_shortcut |-> "", image |-> FALSE],
    [op |-> "make_action", name |-> <<"A","l","l"," ","F","l","o","w","s",","," ","(","l","a","t","e","s","t"," ","v","e","r","s","i","o","n","s"," ","o","n","l","y",")">>, action |-> "db_postgres_latest_flows", menu_depth |-> 1, alternate |-> FALSE, keyboard_shortcut |-> "", image |-> FALSE],
    [op |-> "make_action", name |-> <<"A","l","l"," ","F","l","o","w","s"," ","[","o","l","d"," ","v","1","]",","," ","(","l","a","t","e","s","t"," ","v","e","r","s","i","o","n","s"," ","o","n","l","y",")">>, action |-> "db_postgres_latest_flows_v1", menu_depth |-> 1, alternate |-> TRUE, keyboard_shortcut |-> "", image |-> FALSE],
    [op |-> "make_action", name |-> <<"S","u","m","m","a","r","i","z","e"," ","F","l","o","w","s"," ","(","l","a","t","e","s","t"," ","v","e","r","s","i","o","n","s"," ","o","n","l","y",")">>, action |-> "db_postgres_summarize_latest_flows", menu_depth |-> 1, alternate |-> FALSE, keyboard_shortcut |-> "", image |-> FALSE],
    [op |-> "make_action", name |-> <<"S","u","m","m","a","r","i","z","e"," ","F","l","o","w","s"," ","L","i","t","e"," ","(","l","a","t","e","s","t"," ","v","e","r","s","i","o","n","s"," ","o","n","l","y",")">>, action |-> "db_postgres_summarize_latest_flows_lite", menu_depth |-> 1, alternate |-> TRUE, keyboard_shortcut |-> "", image |-> FALSE],
    [op |-> "add_menu_section", name |-> <<"M","o","d","u","l","e","s">>, action |-> "None", menu_depth |-> 1, alternate |-> FALSE, keyboard_shortcut |-> "", image |-> FALSE],
    [op |-> "make_action", name |-> <<"A","l","l"," ","M","o","d","u","l","e","s",","," ","(","l","a","t","e","s","t"," ","v","e","r","s","i","o","n","s"," ","o","n","l","y",")">>, action |-> "db_postgres_latest_modules", menu_depth |-> 1, alternate |-> FALSE, keyboard_shortcut |-> "", image |-> FALSE],
    [op |-> "add_menu_section", name |-> <<"I","n","t","e","g","r","a","t","i","o","n","s">>, action |-> "None", menu_depth |-> 1, alternate |-> FALSE, keyboard_shortcut |-> "", image |-> FALSE],
    [op |-> "make_action", name |-> <<"L","i","s","t"," ","D","e","s","c","r","i","p","t","o","r","s"," ","w","/"," ","D","o","c","k","e","r"," ","I","m","a","g","e","s">>, action |-> "db_postgres_descriptors_and_docker_images", menu_depth |-> 1, alternate |-> FALSE, keyboard_shortcut |-> "", image |-> FALSE],
    [op |-> "make_action", name |-> <<"L","i","s","t"," ","I","n","s","t","a","n","c","e","s"," ","w","/"," ","D","o","c","k","e","r"," ","I","m","a","g","e","s">>, action |-> "db_postgres_instances_and_docker_images", menu_depth |-> 1, alternate |-> FALSE, keyboard_shortcut |-> "", image |-> FALSE],
    [op |-> "make_action", name |-> <<"L","i","s","t"," ","I","n","s","t","a","n","c","e","s"," ","w","/"," ","D","o","c","k","e","r"," ","I","m","a","g","e","s"," ","(","e","x","t","e","n","d","e","d",")">>, action |-> "db_postgres_instances_and_docker_images_extended", menu_depth |-> 1, alternate |-> TRUE, keyboard_shortcut |-> "", image |-> FALSE],
    [op |-> "make_action", name |-> <<"L","i","s","t"," ","I","n","s","t","a","n","c","e","s"," ","w","/"," ","D","o","c","k","e","r"," ","I","m","a","g","e","s",","," ","e","x","c","l","u","d","e"," ","i","m","a","g","e"," ","i","n"," ","c","l","i","p","b","o","a","r","d">>, action |-> "db_postgres_instances_and_docker_images_exclude_image", menu_depth |-> 1, alternate |-> FALSE, keyboard_shortcut |-> "", image |-> FALSE],
    [op |-> "make_action", name |-> <<"L","i","s","t"," ","I","n","s","t","a","n","c","e","s"," ","w","/"," ","D","o","c","k","e","r"," ","I","m","a","g","e","s"," ","(","e","x","t","e","n","d","e","d",")",","," ","e","x","c","l","u","d","e"," ","i","m","a","g","e"," ","i","n"," ","c","l","i","p","b","o","a","r","d">>, action |-> "db_postgres_instances_and_docker_images_extended_exclude_image", menu_depth |-> 1, alternate |-> TRUE, keyboard_shortcut |-> "", image |-> FALSE],
    [op |-> "make_action", name |-> <<"L","i","s","t"," ","c","u","s","t","o","m"," ","i","n","t","e","g","r","a","t","i","o","n"," ","d","i","g","e","s","t","s">>, action |-> "db_postgres_custom_integrations_active_digests", menu_depth |-> 1, alternate |-> FALSE, keyboard_shortcut |-> "", image |-> FALSE],
    [op |-> "make_action", name |-> <<"L","i","s","t"," ","c","u","s","t","o","m"," ","i","n","t","e","g","r","a","t","i","o","n"," ","d","i","g","e","s","t","s"," ","(","f","r","o","m"," ","b","a","s","h",")">>, action |-> "db_postgres_custom_integrations_active_digests_from_bash", menu_depth |-> 1, alternate |-> TRUE, keyboard_shortcut |-> "", image |-> FALSE],
    [op |-> "add_menu_section", name |-> <<"S","t","r","e","a","m","s"," ","a","n","d"," ","B","a","t","c","h","e","s">>, action |-> "None", menu_depth |-> 1, alternate |-> FALSE, keyboard_shortcut |-> "", image |-> FALSE],
    [op |-> "make_action", name |-> <<"L","i","s","t"," ","e","x","e","c","u","t","i","n","g"," ","s","t","r","e","a","m","s","/","b","a","t","c","h","e","s">>, action |-> "db_postgres_currently_running_streams", menu_depth |-> 1, alternate |-> FALSE, keyboard_shortcut |-> "", image |-> FALSE],
    [op |-> "add_menu_section", name |-> <<"U","s","e","r","s">>, action |-> "None", menu_depth |-> 1, alternate |-> FALSE, keyboard_shortcut |-> "", image |-> FALSE],
    [op |-> "make_action", name |-> <<"L","i","s","t"," ","u","s","e","r","s"," ","w","i","t","h"," ","p","e","n","d","i","n","g"," ","p","a","s","s","w","o","r","d"," ","r","e","s","e","t">>, action |-> "db_postgres_users_pending_password_reset", menu_depth |-> 1, alternate |-> FALSE, keyboard_shortcut |-> "", image |-> FALSE],
    [op |-> "add_menu_section", name |-> <<"C","a","s","e","s">>, action |-> "None", menu_depth |-> 1, alternate |-> FALSE, keyboard_shortcut |-> "", image |-> FALSE],
    [op |-> "make_action", name |-> <<"E","s","t","i","m","a","t","e"," ","T","o","t","a","l"," ","S","i","z","e"," ","o","f"," ","a"," ","C","a","s","e"," ","(","f","r","o","m"," ","c","a","s","e"," ","I","D",")">>, action |-> "db_postgres_cases_total_size", menu_depth |-> 1, alternate |-> FALSE, keyboard_shortcut |-> "", image |-> FALSE],
    [op |-> "print_in_menu", name |-> <<"I","n","t","e","g","r","a","t","i","o","n","s">>, action |-> "None", menu_depth |-> 0, alternate |-> FALSE, keyboard_shortcut |-> "", image |-> FALSE],
    [op |-> "make_action", name |-> <<"i","n","t","e","g","r","a","t","i","o","n","s","F","i","l","e","s"," ","p","a","t","h",":"," ","L","o","g","i","c","H","u","b"," ","h","o","s","t">>, action |-> "clipboard_integration_files_path_logichub_host", menu_depth |-> 1, alternate |-> FALSE, keyboard_shortcut |-> "", image |-> FALSE],
    [op |-> "make_action", name |-> <<"i","n","t","e","g","r","a","t","i","o","n","s","F","i","l","e","s"," ","p","a","t","h",":"," ","L","o","g","i","c","H","u","b"," ","h","o","s","t"," ","(","f","r","o","m"," ","f","i","l","e"," ","n","a","m","e",")">>, action |-> "clipboard_integration_files_path_logichub_host_from_file_name", menu_depth |-> 1, alternate |-> TRUE, keyboard_shortcut |-> "", image |-> FALSE],
    [op |-> "make_action", name |-> <<"i","n","t","e","g","r","a","t","i","o","n","s","F","i","l","e","s"," ","p","a","t","h",":"," ","i","n","t","e","g","r","a","t","i","o","n"," ","c","o","n","t","a","i","n","e","r","s">>, action |-> "clipboard_integration_files_path_integration_containers", menu_depth |-> 1, alternate |-> FALSE, keyboard_shortcut |-> "", image |-> FALSE],
    [op |-> "make_action", name |-> <<"i","n","t","e","g","r","a","t","i","o","n","s","F","i","l","e","s"," ","p","a","t","h",":"," ","i","n","t","e","g","r","a","t","i","o","n"," ","c","o","n","t","a","i","n","e","r","s"," ","(","f","r","o","m"," ","f","i","l","e"," ","n","a","m","e",")">>, action |-> "clipboard_integration_files_path_integration_containers_from_file_name", menu_depth |-> 1, alternate |-> TRUE, keyboard_shortcut |-> "", image |-> FALSE],
    [op |-> "make_action", name |-> <<"i","n","t","e","g","r","a","t","i","o","n","s","F","i","l","e","s"," ","p","a","t","h",":"," ","s","e","r","v","i","c","e"," ","c","o","n","t","a","i","n","e","r">>, action |-> "clipboard_integrationsFiles_path_service_container", menu_depth |-> 1, alternate |-> FALSE, keyboard_shortcut |-> "", image |-> FALSE],
    [op |-> "make_action", name |-> <<"i","n","t","e","g","r","a","t","i","o","n","s","F","i","l","e","s"," ","p","a","t","h",":"," ","s","e","r","v","i","c","e"," ","c","o","n","t","a","i","n","e","r"," ","(","f","r","o","m"," ","f","i","l","e"," ","n","a","m","e",")">>, action |-> "clipboard_integrationsFiles_path_service_container_from_file_name", menu_depth |-> 1, alternate |-> TRUE, keyboard_shortcut |-> "", image |-> FALSE],
    [op |-> "make_action", name |-> <<"C","o","p","y"," ","d","e","s","c","r","i","p","t","o","r"," ","f","i","l","e"," ","u","s","i","n","g"," ","i","t","s"," ","i","m","a","g","e"," ","t","a","g">>, action |-> "copy_descriptor_file_using_image_tag", menu_depth |-> 1, alternate |-> FALSE, keyboard_shortcut |-> "", image |-> FALSE],
    [op |-> "make_action", name |-> <<"C","o","p","y"," ","d","e","s","c","r","i","p","t","o","r"," ","f","i","l","e"," ","u","s","i","n","g"," ","i","t","s"," ","i","m","a","g","e"," ","t","a","g",","," ","t","h","e","n"," ","e","d","i","t"," ","o","r","i","g","i","n","a","l">>, action |-> "copy_descriptor_file_using_image_tag_then_edit_original", menu_depth |-> 1, alternate |-> TRUE, keyboard_shortcut |-> "", image |-> FALSE],
    [op |-> "make_action", name |-> <<"O","p","e","n"," ","b","a","s","h"," ","i","n"," ","d","o","c","k","e","r"," ","c","o","n","t","a","i","n","e","r"," ","b","y"," ","p","r","o","d","u","c","t"," ","n","a","m","e">>, action |-> "open_integration_container_by_product_name", menu_depth |-> 1, alternate |-> FALSE, keyboard_shortcut |-> "", image |-> FALSE],
    [op |-> "make_action", name |-> <<"P","r","e","p"," ","c","u","s","t","o","m"," ","i","n","t","e","g","r","a","t","i","o","n"," ","c","o","n","t","a","i","n","e","r"," ","f","o","r"," ","l","o","c","a","l"," ","e","d","i","t","i","n","g">>, action |-> "prep_custom_integration_container", menu_depth |-> 1, alternate |-> FALSE, keyboard_shortcut |-> "", image |-> FALSE],
    [op |-> "print_in_menu", name |-> <<"L","o","g","i","c","H","u","b"," ","U","p","g","r","a","d","e","s">>, action |-> "None", menu_depth |-> 0, alternate |-> FALSE, keyboard_shortcut |-> "", image |-> FALSE],
    [op |-> "add_menu_section", name |-> <<"U","p","g","r","a","d","e"," ","P","r","e","p","a","r","a","t","i","o","n">>, action |-> "None", menu_depth |-> 1, alternate |-> FALSE, keyboard_shortcut |-> "", image |-> FALSE],
    [op |-> "make_action", name |-> <<"V","i","s","u","a","l"," ","i","n","s","p","e","c","t","i","o","n">>, action |-> "logichub_upgrade_prep_verifications", menu_depth |-> 1, alternate |-> FALSE, keyboard_shortcut |-> "", image |-> FALSE],
    [op |-> "make_action", name |-> <<"B","a","c","k","u","p","s"," ","(","r","u","n"," ","a","s"," ","l","o","g","i","c","h","u","b","/","c","e","n","t","o","s","!",")">>, action |-> "logichub_upgrade_prep_backups", menu_depth |-> 1, alternate |-> FALSE, keyboard_shortcut |-> "", image |-> FALSE],
    [op |-> "make_action", name |-> <<"B","a","c","k","u","p","s"," ","(","s","k","i","p"," ","l","o","g","s",")">>, action |-> "logichub_upgrade_prep_backups_skip_logs", menu_depth |-> 1, alternate |-> FALSE, keyboard_shortcut |-> "", image |-> FALSE],
    [op |-> "make_action", name |-> <<"B","a","c","k","u","p","s"," ","L","i","t","e"," ","(","s","k","i","p"," ","l","o","g","s"," ","a","n","d"," ","L","H"," ","b","a","c","k","u","p"," ","s","c","r","i","p","t",")">>, action |-> "logichub_upgrade_prep_backups_lite", menu_depth |-> 1, alternate |-> TRUE, keyboard_shortcut |-> "", image |-> FALSE],
    [op |-> "add_menu_section", name |-> <<"U","p","g","r","a","d","e"," ","C","o","m","m","a","n","d","s">>, action |-> "None", menu_depth |-> 1, alternate |-> FALSE, keyboard_shortcut |-> "", image |-> FALSE],
    [op |-> "make_action", name |-> <<"U","p","g","r","a","d","e"," ","C","o","m","m","a","n","d"," ","(","f","r","o","m"," ","m","i","l","e","s","t","o","n","e"," ","v","e","r","s","i","o","n"," ","i","n"," ","c","l","i","p","b","o","a","r","d",")">>, action |-> "logichub_upgrade_command_from_clipboard", menu_depth |-> 1, alternate |-> FALSE, keyboard_shortcut |-> "", image |-> FALSE],
    [op |-> "make_action", name |-> <<"U","p","g","r","a","d","e"," ","C","o","m","m","a","n","d"," ","(","s","t","a","t","i","c",")">>, action |-> "logichub_upgrade_command_static", menu_depth |-> 1, alternate |-> TRUE, keyboard_shortcut |-> "", image |-> FALSE],
    [op |-> "make_action", name |-> <<"U","p","g","r","a","d","e"," ","C","o","m","m","a","n","d"," ","w","i","t","h"," ","B","a","c","k","u","p"," ","S","c","r","i","p","t"," ","(","f","r","o","m"," ","m","i","l","e","s","t","o","n","e"," ","v","e","r","s","i","o","n"," ","i","n"," ","c","l","i","p","b","o","a","r","d",")">>, action |-> "logichub_upgrade_command_from_clipboard_with_backup_script", menu_depth |-> 1, alternate |-> FALSE, keyboard_shortcut |-> "", image |-> FALSE],
    [op |-> "make_action", name |-> <<"U","p","g","r","a","d","e"," ","C","o","m","m","a","n","d"," ","w","i","t","h"," ","B","a","c","k","u","p"," ","S","c","r","i","p","t"," ","(","s","t","a","t","i","c",")">>, action |-> "logichub_upgrade_command_static_with_backup_script", menu_depth |-> 1, alternate |-> TRUE, keyboard_shortcut |-> "", image |-> FALSE]
  >>

(* The callbacks by what they do. *)

PrettyCallbacks ==
    {"logichub_pretty_print_sql", "logichub_pretty_print_sql_wrapped",
   "logichub_pretty_print_sql_compact"}

TabsCallbacks ==
    {"logichub_tabs_to_columns", "logichub_tabs_to_columns_lowercase",
   "logichub_tabs_to_columns_sorted", "logichub_tabs_to_columns_sorted_lowercase",
   "logichub_tabs_to_columns_and_quotes", "logichub_tabs_to_columns_and_quotes_lowercase",
   "logichub_tabs_to_columns_and_quotes_sorted",
   "logichub_tabs_to_columns_and_quotes_sorted_lowercase", "logichub_sql_start_from_tabs",
   "logichub_sql_start_from_tabs_sorted", "logichub_sql_start_from_tabs_distinct",
   "logichub_sql_start_from_tabs_join_left", "logichub_tabs_to_columns_left_join",
   "logichub_sql_start_from_tabs_join_right", "logichub_tabs_to_columns_right_join"}

ReadwriteCallbacks ==
    {"logichub_sql_start_from_table_name", "action_logichub_clipboard_to_static_string",
   "logichub_event_file_url_from_file_name", "logichub_operator_start_loadList_with_filter",
   "logichub_operator_start_loadList_without_filter",
   "logichub_integration_name_from_digest_or_container_name",
   "action_docker_psql_without_shell_from_clipboard",
   "action_docker_psql_without_shell_json_from_clipboard",
   "db_postgres_instances_and_docker_images_exclude_image",
   "db_postgres_instances_and_docker_images_extended_exclude_image",
   "clipboard_integration_files_path_logichub_host_from_file_name",
   "clipboard_integration_files_path_integration_containers_from_file_name",
   "clipboard_integrationsFiles_path_service_container_from_file_name",
   "copy_descriptor_file_using_image_tag",
   "copy_descriptor_file_using_image_tag_then_edit_original"}

StaticCallbacks ==
    {"logichub_sql_start_without_table_name",
   "logichub_sql_start_with_integ_error_check_without_table_name", "logichub_event_file_url_static",
   "logichub_operator_start_fetchAlerts_no_table", "shell_lh_host_fix_add_self_to_docker_group",
   "logichub_shell_own_instance_version", "logichub_check_recent_user_activity_v2",
   "logichub_check_recent_user_activity_v1", "logichub_stop_and_start_services_in_one_line",
   "shell_lh_host_path_to_lh_monitoring_repo", "shell_lh_host_path_to_node_data",
   "shell_lh_host_path_to_service_container_volume", "lh_service_shell_list_edited_descriptors",
   "action_docker_service_bash", "action_docker_psql_shell", "action_docker_psql_without_shell",
   "action_docker_psql_without_shell_json", "db_postgres_latest_flows",
   "db_postgres_latest_flows_v1", "db_postgres_summarize_latest_flows",
   "db_postgres_summarize_latest_flows_lite", "db_postgres_latest_modules",
   "db_postgres_descriptors_and_docker_images", "db_postgres_instances_and_docker_images",
   "db_postgres_instances_and_docker_images_extended",
   "db_postgres_custom_integrations_active_digests",
   "db_postgres_custom_integrations_active_digests_from_bash",
   "db_postgres_currently_running_streams", "db_postgres_users_pending_password_reset",
   "clipboard_integration_files_path_logichub_host",
   "clipboard_integration_files_path_integration_containers",
   "clipboard_integrationsFiles_path_service_container",
   "open_integration_container_by_product_name", "prep_custom_integration_container"}

TableCallbacks ==
    {"logichub_sql_start_with_integ_error_check",
   "logichub_dsl_integ_error_check_forceFail_and_dropColumns",
   "logichub_dsl_integ_error_check_forceFail_and_dropColumns_without_result",
   "logichub_dsl_batch_info", "logichub_operator_start_addExecutionMetadata",
   "logichub_operator_start_dropColumns", "logichub_operator_start_ensureTableHasColumns",
   "logichub_operator_start_fieldnamesHistogram", "logichub_operator_start_fetchAlerts_with_table",
   "logichub_operator_start_forceFail", "logichub_operator_start_getFieldnames",
   "logichub_operator_start_jsonToColumns", "logichub_operator_start_unionAll",
   "logichub_operator_start_waitForMillis", "logichub_operator_start_autoJoin",
   "logichub_operator_start_autoJoinTables", "logichub_operator_start_joinTables",
   "logichub_operator_start_appendToList", "logichub_operator_start_appendToListIfNotExist",
   "logichub_operator_start_queryFromList", "logichub_operator_start_replaceList",
   "logichub_operator_start_selectivelyDeleteFromList"}

JsonCallbacks ==
    {"action_spark_from_json", "action_spark_from_json_allow_invalid",
   "action_spark_from_json_non_recursive", "action_spark_from_json_non_recursive_allow_invalid",
   "action_json_to_schema_of_json", "sanitize_logichub_json", "logichub_runtime_stats_to_json",
   "logichub_runtime_stats_to_csv"}

DslCallbacks ==
    {"logichub_dsl_reformat_simple", "logichub_dsl_reformat_pretty"}

CaseCallbacks ==
    {"db_postgres_cases_total_size"}

FileCallbacks ==
    {"logichub_upgrade_prep_verifications", "logichub_upgrade_prep_backups",
   "logichub_upgrade_prep_backups_skip_logs", "logichub_upgrade_prep_backups_lite"}

UpgradeCallbacks ==
    {"logichub_upgrade_command_from_clipboard",
   "logichub_upgrade_command_from_clipboard_with_backup_script"}

UpgradeStaticCallbacks ==
    {"logichub_upgrade_command_static", "logichub_upgrade_command_static_with_backup_script"}

----------------------------------------------------------------------------
(* Actions.__init__: the status-bar line, the menu lines and the dispatch   *)
(* table.  A menu line is a record of the attributes the code writes into   *)
(* the line; stmt is the statement of InitProgram that printed it (0 for    *)
(* the status-bar line).                                                    *)

MenuLine(kind, label, stmt) ==
  [kind |-> kind, label |-> label, menu_depth |-> 0, alternate |-> FALSE,
   key |-> "", image |-> FALSE, color |-> None, param1 |-> None, stmt |-> stmt]

\* A set_status_bar_display that ends the label with "|" in every style.
set_status_bar_display_bar_always(main) ==
  LET style == main.status_bar_style
      label == IF style = <<"l","o","g","o">> THEN <<>> ELSE main.status_bar_label
  IN  [MenuLine("status", label \o <<"|">>, 0) EXCEPT
         !.image = style \in {<<"l","o","g","o">>, <<"b","o","t","h">>},
         !.color = IF style \in {<<"t","e","x","t">>, <<"b","o","t","h">>}
                   THEN Some(main.status_bar_text_color) ELSE None]

\* Actions.set_status_bar_display: the first line of the menu output.
set_status_bar_display(main) ==
  LET style == main.status_bar_style
      label == IF style = <<"l","o","g","o">> THEN <<>> ELSE main.status_bar_label
  IN  IF style # <<"c","u","s","t","o","m">>
      THEN [MenuLine("status", label \o <<"|">>, 0) EXCEPT
              !.image = style \in {<<"l","o","g","o">>, <<"b","o","t","h">>},
              !.color = IF style \in {<<"t","e","x","t">>, <<"b","o","t","h">>}
                        THEN Some(main.status_bar_text_color) ELSE None]
      ELSE MenuLine("status", label, 0)

\* The object under construction: the dispatch table, the menu buffer, the
\* class-level table of keyboard shortcuts, and the exception raised, if any.
NewActions(main) ==
  [action_list |-> [k \in {} |-> <<>>],
   menu_output |-> <<set_status_bar_display(main)>>,
   shortcuts |-> {},
   raised |-> ""]

\* ActionObject(id, name, action)
ActionObject(id, name, action) == [id |-> id, name |-> name, action |-> action]

\* dict[key] = value
Put(d, key, value) == [k \in DOMAIN d \cup {key} |-> IF k = key THEN value ELSE d[k]]

\* A make_action that writes the display name, not the identifier, into param1.
make_action_param1_name(self, n, s, action_id) ==
  LET line0 == [MenuLine("item", s.name, n) EXCEPT
                  !.menu_depth = s.menu_depth, !.alternate = s.alternate,
                  !.key = s.keyboard_shortcut]
      self1 == [self EXCEPT !.shortcuts = @ \cup ({s.keyboard_shortcut} \ {""})]
  IN  IF s.keyboard_shortcut # "" /\ s.keyboard_shortcut \in self.shortcuts
      THEN [self EXCEPT !.raised = "ValueError"]
      ELSE IF s.action = "None"
      THEN [self1 EXCEPT !.menu_output = Append(@, line0)]
      ELSE [self1 EXCEPT
              !.action_list = Put(@, Sanitize(s.name),
                                  ActionObject(Sanitize(s.name), s.name, s.action)),
              !.menu_output = Append(@, [line0 EXCEPT !.param1 = Some(s.name)])]

\* Actions.make_action(name, action, action_id, menu_depth, alternate,
\* keyboard_shortcut) for statement number n of the constructor.
make_action(self, n, s, action_id) ==
  LET line0 == [MenuLine("item", s.name, n) EXCEPT
                  !.menu_depth = s.menu_depth, !.alternate = s.alternate,
                  !.key = s.keyboard_shortcut]
  IN  IF s.keyboard_shortcut # "" /\ s.keyboard_shortcut \in self.shortcuts
      THEN [self EXCEPT !.raised = "ValueError"]
      ELSE LET self1 == IF s.keyboard_shortcut # ""
                        THEN [self EXCEPT !.shortcuts = @ \cup {s.keyboard_shortcut}]
                        ELSE self
           IN  IF s.action = "None"
               THEN [self1 EXCEPT !.menu_output = Append(@, line0)]
               ELSE LET id == IF ~Truthy(action_id) THEN Sanitize(s.name) ELSE action_id[1]
                        action_obj == ActionObject(id, s.name, s.action)
                    IN  [self1 EXCEPT
                           !.action_list = Put(@, id, action_obj),
                           !.menu_output = Append(@, [line0 EXCEPT !.param1 = Some(id)])]

\* Actions.add_menu_divider_line
add_menu_divider_line(self, n, menu_depth) ==
  [self EXCEPT !.menu_output =
     Append(@, [MenuLine("divider", <<>>, n) EXCEPT !.menu_depth = menu_depth])]

\* Actions.add_menu_section(label, menu_depth, text_color); the first section's
\* label embeds an image read from the repository, which raises when the file
\* cannot be opened.
add_menu_section(self, n, s, images_readable) ==
  IF s.image /\ ~images_readable
  THEN [self EXCEPT !.raised = "FileNotFoundError"]
  ELSE LET self1 == add_menu_divider_line(self, n, s.menu_depth)
       IN  [self1 EXCEPT !.menu_output =
              Append(@, [MenuLine("section", s.name, n) EXCEPT
                           !.menu_depth = s.menu_depth, !.image = s.image,
                           !.color = Some(<<"b","l","u","e">>)])]

\* Actions.print_in_menu
print_in_menu(self, n, s) ==
  [self EXCEPT !.menu_output = Append(@, MenuLine("text", s.name, n))]

\* One statement of the constructor.
InitStatement(self, n, images_readable) ==
  LET s == InitProgram[n]
  IN  IF s.op = "make_action" THEN make_action(self, n, s, None)
      ELSE IF s.op = "add_menu_section" THEN add_menu_section(self, n, s, images_readable)
      ELSE print_in_menu(self, n, s)

\* Statements n .. Len(InitProgram) of the constructor; an exception ends it.
RECURSIVE InitFrom(_, _, _)
InitFrom(self, n, images_readable) ==
  IF n > Len(InitProgram) \/ self.raised # "" THEN self
  ELSE InitFrom(InitStatement(self, n, images_readable), n + 1, images_readable)

\* The statements of the constructor after set_status_bar_display use nothing of
\* the configuration, so what they build is computed once: BuiltActions is the
\* object they leave when they start from an empty menu buffer.
BuiltActions ==
  InitFrom([action_list |-> [k \in {} |-> <<>>], menu_output |-> <<>>,
            shortcuts |-> {}, raised |-> ""], 1, TRUE)

\* Actions(config).  set_status_bar_display reads the logo file for the styles
\* "logo" and "both", and the first menu section reads an image as well.
Actions__init__(main, images_readable) ==
  IF ~images_readable
  THEN [NewActions(main) EXCEPT !.raised = "FileNotFoundError"]
  ELSE [BuiltActions EXCEPT !.menu_output = NewActions(main).menu_output \o @]

\* The statements of the constructor that register a callback.
Registrations == {n \in DOMAIN InitProgram :
                    InitProgram[n].op = "make_action" /\ InitProgram[n].action # "None"}

----------------------------------------------------------------------------
(* The effects of an action.  The world w of a callback is the clipboard    *)
(* and the log of effects; a call ends by returning a value, by raising an  *)
(* exception, or by sys.exit (SystemExit, which `except Exception` does not *)
(* catch).  The constant text of a template or a message is one symbol of   *)
(* the text it is part of.                                                  *)

World(clip, ev) == [clip |-> clip, ev |-> ev]

Ev(w, t, text) == [w EXCEPT !.ev = Append(@, [t |-> t, text |-> text])]

Return(w, val) == [ctl |-> "return", code |-> 0, exc |-> "", val |-> val, w |-> w]

Exit(w, code) == [ctl |-> "exit", code |-> code, exc |-> "", val |-> <<>>, w |-> w]

Raise(w, exc) == [ctl |-> "raise", code |-> 0, exc |-> exc, val |-> <<>>, w |-> w]

\* The rest K of a function body runs only after a call that returned.
Bind(r, K(_)) == IF r.ctl = "return" THEN K(r) ELSE r

\* str.replace of one character by another
ReplaceChar(s, c, d) == [i \in DOMAIN s |-> IF s[i] = c THEN d ELSE s[i]]

\* Actions.display_notification: the content, its quotation marks escaped, goes
\* to osascript.
display_notification(w, content) ==
  Return(Ev(w, "notify", Replace(content, <<"\"">>, <<"\\", "\"">>)), <<>>)

\* A display_notification_error that ends the process with exit code 0.
display_notification_error_exit_0(w, content, error_prefix) ==
  LET _error == error_prefix \o ReplaceChar(content, "\"", "'")
  IN  Exit(display_notification(Ev(w, "beep", <<>>), _error).w, 0)

\* A display_notification_error that returns to its caller.
display_notification_error_returns(w, content, error_prefix) ==
  LET _error == error_prefix \o ReplaceChar(content, "\"", "'")
  IN  display_notification(Ev(w, "beep", <<>>), _error)

\* Actions.display_notification_error: beep, notify, sys.exit(1).
display_notification_error(w, content, error_prefix) ==
  LET _error == error_prefix \o ReplaceChar(content, "\"", "'")
  IN  Exit(display_notification(Ev(w, "beep", <<>>), _error).w, 1)

\* A write_clipboard that never notifies.
write_clipboard_silently(w, main, text, skip_notification) ==
  Return(Ev([w EXCEPT !.clip = text], "write", text), <<>>)

\* Actions.write_clipboard
write_clipboard(w, main, text, skip_notification) ==
  LET w1 == Ev([w EXCEPT !.clip = text], "write", text)
  IN  IF IsTrue(main.clipboard_update_notifications) /\ ~skip_notification
      THEN display_notification(w1, <<"Clipboard updated">>)
      ELSE Return(w1, <<>>)

\* Actions.read_clipboard(trim_input, lower)
read_clipboard(w, trim_input, lower) ==
  LET s1 == IF trim_input THEN Strip(w.clip) ELSE w.clip
      s2 == IF lower THEN Lower(s1) ELSE s1
  IN  Return(Ev(w, "read", <<>>), RemoveChar(s2, "\r"))

\* A fail_action_with_exception that leaves the clipboard alone.
fail_action_without_trace(w, main, exception) ==
  display_notification_error(
    w, <<"Failed with an exception (", exception, "): check traceback in clipboard">>, <<>>)

\* A fail_action_with_exception that lets write_clipboard notify.
fail_action_announcing_trace(w, main, exception) ==
  LET r == write_clipboard(w, main, <<"Traceback: ", exception>>, FALSE)
      K(r1) == display_notification_error(
                 r1.w, <<"Failed with an exception (", exception,
                         "): check traceback in clipboard">>, <<>>)
  IN  Bind(r, K)

\* Actions.fail_action_with_exception(exception=err)
fail_action_with_exception(w, main, exception) ==
  LET r == write_clipboard(w, main, <<"Traceback: ", exception>>, TRUE)
      K(r1) == display_notification_error(
                 r1.w, <<"Failed with an exception (", exception,
                         "): check traceback in clipboard">>, <<>>)
  IN  Bind(r, K)

\* Actions._lh_read_clipboard_for_table_name
_lh_read_clipboard_for_table_name(w) ==
  LET r == read_clipboard(w, TRUE, FALSE)
      K(r1) ==
        IF \E i \in DOMAIN r1.val : IsSpace(r1.val[i])
        THEN LET e == display_notification_error(
                        r1.w, <<"Invalid input; table name cannot contain spaces">>,
                        <<"Failed with error: ">>)
                 K2(r2) == Exit(r2.w, 1)
             IN  Bind(e, K2)
        ELSE r1
  IN  Bind(r, K)

\* re.match(r'^\d{2,}\.\d+$', version)
IsMilestoneVersion(version) ==
  \E p \in DOMAIN version :
    /\ version[p] = "."
    /\ p >= 3
    /\ p < Len(version)
    /\ \A i \in DOMAIN version : i # p => IsDigit(version[i])

\* Actions.make_upgrade_command(version)
make_upgrade_command(w, version) ==
  LET installer(v) == Return(w, <<"bash <(curl .../installer-m">> \o v \o <<".sh)">>)
  IN  IF version = <<>> THEN installer(<<"XX.YY">>)
      ELSE LET v == Strip(RemoveChar(version, "m"))
           IN  IF Strip(v) = <<>> \/ ~IsMilestoneVersion(v)
               THEN LET e == display_notification_error(
                               w, <<"Invalid LogicHub version (">> \o v \o <<")">>,
                               <<"Failed with error: ">>)
                        K(r) == [installer(v) EXCEPT !.w = r.w]
                    IN  Bind(e, K)
               ELSE installer(v)

----------------------------------------------------------------------------
(* Actions.pretty_print_sql.  sqlparse is a library outside the repository; *)
(* SqlparseFormat models sqlparse.format(reindent=True, keyword_case=       *)
(* 'upper') on the texts of the model: a back-quoted name is one token and  *)
(* is kept as it is, whitespace between tokens becomes one space and is     *)
(* dropped at both ends, keywords are upper-cased, and FROM starts a line.  *)

\* The length of the longest prefix of s whose characters all satisfy P.
RunLen(s, P(_)) ==
  CHOOSE n \in 0..Len(s) : /\ \A i \in 1..n : P(s[i])
                           /\ (n = Len(s) \/ ~P(s[n + 1]))

\* The places where re finds \bword\b in s.
WordAt(s, word, i) ==
  /\ i + Len(word) - 1 <= Len(s)
  /\ SubSeq(s, i, i + Len(word) - 1) = word
  /\ (i = 1 \/ ~IsWord(s[i - 1]))
  /\ (i + Len(word) - 1 = Len(s) \/ ~IsWord(s[i + Len(word)]))

FindWord(s, word) == \E i \in DOMAIN s : WordAt(s, word, i)

\* re.sub(fr"\b{word}\b", new, s), from position i on
RECURSIVE SubWordFrom(_, _, _, _)
SubWordFrom(s, word, new, i) ==
  IF i > Len(s) THEN <<>>
  ELSE IF WordAt(s, word, i) THEN new \o SubWordFrom(s, word, new, i + Len(word))
  ELSE <<s[i]>> \o SubWordFrom(s, word, new, i + 1)

SubWord(s, word, new) == SubWordFrom(s, word, new, 1)

\* re.sub(r'[\n\r]+', ' ', s)
RECURSIVE LineBreaksToSpaces(_)
LineBreaksToSpaces(s) ==
  LET IsBreak(c) == c \in {"\n", "\r"}
  IN  IF s = <<>> THEN <<>>
      ELSE IF IsBreak(Head(s))
           THEN <<" ">> \o LineBreaksToSpaces(Drop(s, RunLen(s, IsBreak)))
           ELSE <<Head(s)>> \o LineBreaksToSpaces(Tail(s))

\* re.sub(r'^`|(?<!\\)`$', '', s): a tick at the start goes, and a tick at the
\* end that no backslash precedes goes; each is removed whether or not the
\* other is there.
StripTicks(s) ==
  LET s1 == IF s # <<>> /\ Head(s) = "TICK" THEN Tail(s) ELSE s
      n == Len(s)
      trailing == /\ n >= 2
                  /\ s[n] = "TICK"
                  /\ s[n - 1] # "\\"
  IN  IF trailing THEN Take(s1, Len(s1) - 1) ELSE s1

\* Words that sqlparse treats as keywords, among the words of the model.
SqlKeywords == {<<"s","e","l","e","c","t">>, <<"f","r","o","m">>, <<"r","e","s","u","l","t">>, <<"t","e","m","p">>, <<"v","e","r","s","i","o","n">>, <<"u","s","a","g","e">>, <<"i","n","s","t","a","n","c","e">>}

\* The tokens of a SQL text: kind "q" is a back-quoted name, "ws" whitespace,
\* "word" a run of word characters, "sym" any other single character.
RECURSIVE Lex(_)
Lex(s) ==
  IF s = <<>> THEN <<>>
  ELSE LET c == Head(s)
           NotTick(x) == x # "TICK"
           q == RunLen(Tail(s), NotTick)
           n == IF c = "TICK" /\ q < Len(s) - 1 THEN q + 2
                ELSE IF IsSpace(c) THEN RunLen(s, IsSpace)
                ELSE IF IsWord(c) THEN RunLen(s, IsWord)
                ELSE 1
           kind == IF c = "TICK" /\ q < Len(s) - 1 THEN "q"
                   ELSE IF IsSpace(c) THEN "ws"
                   ELSE IF IsWord(c) THEN "word"
                   ELSE "sym"
       IN  <<[kind |-> kind, text |-> Take(s, n)]>> \o Lex(Drop(s, n))

IsKeyword(tok) == tok.kind = "word" /\ Lower(tok.text) \in SqlKeywords

RECURSIVE Serialize(_, _)
Serialize(toks, i) ==
  IF i > Len(toks) THEN <<>>
  ELSE LET tok == toks[i]
           out == IF tok.kind = "ws"
                  THEN IF i = 1 \/ i = Len(toks) THEN <<>>
                       ELSE IF IsKeyword(toks[i + 1]) /\ Lower(toks[i + 1].text) = <<"f","r","o","m">>
                            THEN <<"\n">>
                       ELSE <<" ">>
                  ELSE IF IsKeyword(tok) THEN Upper(tok.text)
                  ELSE tok.text
       IN  out \o Serialize(toks, i + 1)

\* sqlparse.format(s, reindent=True, keyword_case='upper', indent_width=4,
\* wrap_after=wrap_after, identifier_case=None); wrap_after only moves the
\* commas of a column list, and the texts of the model have none.
SqlparseFormat(s, wrap_after) == Serialize(Lex(s), 1)

\* specific_functions_to_uppercase of pretty_print_sql
specific_functions_to_uppercase ==
  << <<"g","e","t","_","j","s","o","n","_","o","b","j","e","c","t">>,
     <<"f","r","o","m","_","u","n","i","x","t","i","m","e">>,
     <<"m","i","n","(">>,
     <<"m","a","x","(">>,
     <<"s","u","m","(">>,
     <<"c","o","u","n","t","(">>,
     <<"c","o","a","l","e","s","c","e","(">>,
     <<"r","e","g","e","x","p","_","r","e","p","l","a","c","e">>,
     <<"r","e","g","e","x","p","_","e","x","t","r","a","c","t","(">> >>

override_caps == <<<<"r","e","s","u","l","t">>, <<"t","e","m","p">>, <<"v","e","r","s","i","o","n">>, <<"u","s","a","g","e">>, <<"i","n","s","t","a","n","c","e">>>>

RECURSIVE UppercaseFunctions(_, _)
UppercaseFunctions(s, i) ==
  IF i > Len(specific_functions_to_uppercase) THEN s
  ELSE LET f == specific_functions_to_uppercase[i]
       IN  UppercaseFunctions(IF Contains(s, f) THEN Replace(s, f, Upper(f)) ELSE s, i + 1)

RECURSIVE OverrideCaps(_, _, _)
OverrideCaps(s, input_str, i) ==
  IF i > Len(override_caps) THEN s
  ELSE LET cap_field == override_caps[i]
           s1 == IF FindWord(s, Upper(cap_field)) /\ ~FindWord(input_str, Upper(cap_field))
                 THEN SubWord(s, Upper(cap_field), Lower(cap_field))
                 ELSE s
       IN  OverrideCaps(s1, input_str, i + 1)

IsMathOperator(c) == c \in {"-", "+", "*", "/"}

\* re.sub(r'\b([-+*/])(\d)', " \1 \2", s): the replacement is not a raw string,
\* so "\1" and "\2" are the characters chr(1) and chr(2).
RECURSIVE SpaceOutMath(_, _)
SpaceOutMath(s, i) ==
  IF i > Len(s) THEN <<>>
  ELSE IF /\ i > 1
          /\ i < Len(s)
          /\ IsWord(s[i - 1])
          /\ IsMathOperator(s[i])
          /\ IsDigit(s[i + 1])
       THEN <<" ", "SOH", " ", "STX">> \o SpaceOutMath(s, i + 2)
       ELSE <<s[i]>> \o SpaceOutMath(s, i + 1)

\* The text of pretty_print_sql before its last step, lines 730-756.
FormattedText(input_str, wrap_after) ==
  LET o1 == Strip(LineBreaksToSpaces(input_str))
      o2 == StripTicks(o1)
      o3 == SqlparseFormat(o2, wrap_after)
      o4 == IF StartsWith(o3, <<"S","E","L","E","C","T"," ","*","\n">> \o <<"F","R","O","M"," ">>)
            THEN <<"S","E","L","E","C","T"," ","*"," ">> \o Drop(o3, Len(<<"S","E","L","E","C","T"," ","*","\n">>))
            ELSE o3
      o5 == UppercaseFunctions(o4, 1)
  IN  OverrideCaps(o5, input_str, 1)

\* The text pretty_print_sql computes when sqlparse raises nothing.
PrettyText(input_str, wrap_after) == SpaceOutMath(FormattedText(input_str, wrap_after), 1)

\* Actions.pretty_print_sql(input_str, wrap_after)
pretty_print_sql(w, input_str, wrap_after, sqlparse_raises) ==
  IF sqlparse_raises
  THEN LET e == display_notification_error(
                  w, <<"Exception from sqlparse: ">>, <<"Failed with error: ">>)
           K(r) == Return(r.w, <<"None">>)
       IN  Bind(e, K)
  ELSE Return(w, PrettyText(input_str, wrap_after))

----------------------------------------------------------------------------
(* The callbacks of the dispatch table, grouped by what they do with the    *)
(* clipboard.  What a callback of the JSON, DSL and file groups does        *)
(* depends on a parse or on a file of the repository; env.oracle says how   *)
(* that went: "ok", "invalid" (the callback's own validation rejects the    *)
(* input), "invalid_key" (the parsed JSON has a key with a non-word         *)
(* character, or no runtimeStats key) or "raise" (a later step raises).     *)

Oracles == {"ok", "invalid", "invalid_key", "raise"}

ErrorPrefix == <<"Failed with error: ">>

\* The callbacks that write a constant text.
static_callback(w, main, cb) == write_clipboard(w, main, <<cb>>, FALSE)

\* The callbacks that read the clipboard and write a text built from it:
\* read_clipboard(), a template or a transformation, write_clipboard().
read_write_callback(w, main, cb) ==
  LET r == read_clipboard(w, cb # "action_logichub_clipboard_to_static_string",
                          cb = "logichub_integration_name_from_digest_or_container_name")
      K(r1) == write_clipboard(r1.w, main, <<cb>> \o r1.val, FALSE)
  IN  Bind(r, K)

\* re.sub('[,"|\']+', ' ', s): a run of commas, quotes, pipes and apostrophes
\* becomes one space.
RECURSIVE DelimitersToSpace(_)
DelimitersToSpace(s) ==
  LET IsDelimiter(c) == c \in {",", "\"", "|", "'"}
  IN  IF s = <<>> THEN <<>>
      ELSE IF IsDelimiter(Head(s))
           THEN <<" ">> \o DelimitersToSpace(Drop(s, RunLen(s, IsDelimiter)))
           ELSE <<Head(s)>> \o DelimitersToSpace(Tail(s))

\* str.split(): the maximal runs of characters that are not whitespace
RECURSIVE Split(_)
Split(s) ==
  LET NotSpace(c) == ~IsSpace(c)
  IN  IF s = <<>> THEN <<>>
      ELSE IF IsSpace(Head(s)) THEN Split(Drop(s, RunLen(s, IsSpace)))
      ELSE <<Take(s, RunLen(s, NotSpace))>> \o Split(Drop(s, RunLen(s, NotSpace)))

\* sorted(list) for a list of texts, by insertion
RECURSIVE InsertSorted(_, _)
InsertSorted(x, list) ==
  IF list = <<>> THEN <<x>>
  ELSE IF StrLess(x, Head(list)) THEN <<x>> \o list
  ELSE <<Head(list)>> \o InsertSorted(x, Tail(list))

\* A sorted() that leaves the list in the order it has.
SortedListKeepsOrder(list) == list

RECURSIVE SortedList(_)
SortedList(list) ==
  IF list = <<>> THEN <<>>
  ELSE InsertSorted(list[Len(list)], SortedList(SubSeq(list, 1, Len(list) - 1)))

\* sep.join(list)
RECURSIVE Join(_, _)
Join(sep, list) ==
  IF list = <<>> THEN <<>>
  ELSE IF Len(list) = 1 THEN list[1]
  ELSE list[1] \o sep \o Join(sep, Tail(list))

\* re.split(', *', s): s is cut at every comma, which goes with the spaces
\* that follow it.
RECURSIVE SplitCommas(_, _)
SplitCommas(s, piece) ==
  LET IsBlank(c) == c = " "
  IN  IF s = <<>> THEN <<piece>>
      ELSE IF Head(s) = ","
           THEN <<piece>> \o SplitCommas(Drop(Tail(s), RunLen(Tail(s), IsBlank)), <<>>)
           ELSE SplitCommas(Tail(s), Append(piece, Head(s)))

\* The text Actions._split_tabs_to_columns builds from what it read.
ColumnsText(_input_str, force_lower, sort, quote) ==
  LET s1 == DelimitersToSpace(_input_str)
      s2 == IF force_lower THEN Lower(s1) ELSE s1
      split == Split(s2)
      _columns == IF sort THEN SortedList(split) ELSE split
  IN  IF quote THEN <<"\"">> \o Join(<<"\"", ",", " ", "\"">>, _columns) \o <<"\"">>
      ELSE Join(<<",", " ">>, _columns)

\* Actions._split_tabs_to_columns(force_lower, sort, quote, update_clipboard)
_split_tabs_to_columns(w, main, force_lower, sort, quote, update_clipboard) ==
  LET r == read_clipboard(w, TRUE, FALSE)
      K(r1) ==
        LET final_output == ColumnsText(r1.val, force_lower, sort, quote)
        IN  IF update_clipboard
            THEN write_clipboard(r1.w, main, final_output, FALSE)
            ELSE Return(r1.w, final_output)
  IN  Bind(r, K)

\* Actions.logichub_tabs_to_columns and its seven variants, and the actions
\* that build a SELECT or a join list from _split_tabs_to_columns.
tabs_callback(w, main, cb) ==
  LET force_lower == cb \in {"logichub_tabs_to_columns_lowercase",
                             "logichub_tabs_to_columns_sorted_lowercase",
                             "logichub_tabs_to_columns_and_quotes_lowercase",
                             "logichub_tabs_to_columns_and_quotes_sorted_lowercase"}
      sort == cb \in {"logichub_tabs_to_columns_sorted",
                      "logichub_tabs_to_columns_sorted_lowercase",
                      "logichub_tabs_to_columns_and_quotes_sorted",
                      "logichub_tabs_to_columns_and_quotes_sorted_lowercase",
                      "logichub_sql_start_from_tabs_sorted"}
      quote == cb \in {"logichub_tabs_to_columns_and_quotes",
                       "logichub_tabs_to_columns_and_quotes_lowercase",
                       "logichub_tabs_to_columns_and_quotes_sorted",
                       "logichub_tabs_to_columns_and_quotes_sorted_lowercase"}
      side == IF cb \in {"logichub_tabs_to_columns_left_join",
                         "logichub_sql_start_from_tabs_join_left"} THEN "L" ELSE "R"
      joined(text) == <<side, ".">> \o Join(<<",", " ", side, ".">>, SplitCommas(text, <<>>))
      join_tail == <<"\nFROM xxxx L\nLEFT JOIN xxxx R\nON L.xxxx = R.xxxx">>
      K(r1) ==
        IF cb \in {"logichub_sql_start_from_tabs", "logichub_sql_start_from_tabs_sorted"}
        THEN write_clipboard(r1.w, main, <<"SELECT ">> \o r1.val \o <<"\nFROM ">>, FALSE)
        ELSE IF cb = "logichub_sql_start_from_tabs_distinct"
        THEN write_clipboard(r1.w, main,
                             <<"SELECT DISTINCT ">> \o r1.val \o <<"\nFROM ">>, FALSE)
        ELSE IF cb \in {"logichub_tabs_to_columns_left_join",
                        "logichub_tabs_to_columns_right_join"}
        THEN write_clipboard(r1.w, main, joined(r1.val), FALSE)
        ELSE write_clipboard(r1.w, main,
                             <<"SELECT ">> \o joined(r1.val) \o join_tail, FALSE)
  IN  IF cb \in {"logichub_tabs_to_columns", "logichub_tabs_to_columns_lowercase",
                 "logichub_tabs_to_columns_sorted",
                 "logichub_tabs_to_columns_sorted_lowercase",
                 "logichub_tabs_to_columns_and_quotes",
                 "logichub_tabs_to_columns_and_quotes_lowercase",
                 "logichub_tabs_to_columns_and_quotes_sorted",
                 "logichub_tabs_to_columns_and_quotes_sorted_lowercase"}
      THEN _split_tabs_to_columns(w, main, force_lower, sort, quote, TRUE)
      ELSE Bind(_split_tabs_to_columns(w, main, force_lower, sort, quote, FALSE), K)

\* The operator, integration-error-check and batch-info templates.
table_callback(w, main, cb) ==
  LET r == _lh_read_clipboard_for_table_name(w)
      K(r1) == write_clipboard(r1.w, main, <<cb>> \o r1.val, FALSE)
  IN  Bind(r, K)

\* Actions.logichub_upgrade_command_from_clipboard and
\* ..._from_clipboard_with_backup_script
upgrade_callback(w, main, cb) ==
  LET r == read_clipboard(w, TRUE, TRUE)
      prefix == IF cb = "logichub_upgrade_command_from_clipboard_with_backup_script"
                THEN <<"sudo /opt/logichub/scripts/backup.sh; ">> ELSE <<>>
      K2(r2) == write_clipboard(r2.w, main, prefix \o r2.val, FALSE)
      K(r1) == Bind(make_upgrade_command(r1.w, r1.val), K2)
  IN  Bind(r, K)

\* Actions.logichub_upgrade_command_static and ..._static_with_backup_script
upgrade_static_callback(w, main, cb) ==
  LET prefix == IF cb = "logichub_upgrade_command_static_with_backup_script"
                THEN <<"sudo /opt/logichub/scripts/backup.sh; ">> ELSE <<>>
      K(r) == write_clipboard(r.w, main, prefix \o r.val, FALSE)
  IN  Bind(make_upgrade_command(w, <<>>), K)

\* A pattern that digits and lower-case letters match.
IsCaseIdOrWord(s) == s # <<>> /\ \A i \in DOMAIN s : IsDigit(s[i]) \/ s[i] \in LowerChars

\* re.search(r'^(?=[a-z]+-)?(\d+)$', s)
IsCaseId(s) == s # <<>> /\ \A i \in DOMAIN s : IsDigit(s[i])

\* Actions.db_postgres_cases_total_size; m[0] raises TypeError when m is None.
case_callback(w, main, cb) ==
  LET r == read_clipboard(w, TRUE, TRUE)
      K(r1) ==
        IF ~IsCaseId(r1.val)
        THEN LET e == display_notification_error(
                        r1.w, <<"Text in clipboard is not a valid case ID">>, ErrorPrefix)
                 K2(r2) == Raise(r2.w, "TypeError")
             IN  Bind(e, K2)
        ELSE write_clipboard(r1.w, main, <<"\\set TEMP__CASE_ID ">> \o r1.val, FALSE)
  IN  Bind(r, K)

\* Actions.logichub_pretty_print_sql(wrap_after) and its two variants
pretty_callback(w, main, cb, oracle) ==
  LET wrap_after == IF cb = "logichub_pretty_print_sql_wrapped" THEN 80
                    ELSE IF cb = "logichub_pretty_print_sql_compact" THEN 99999
                    ELSE 0
      r == read_clipboard(w, TRUE, FALSE)
      K2(r2) == write_clipboard(r2.w, main, r2.val, FALSE)
      K(r1) == Bind(pretty_print_sql(r1.w, r1.val, wrap_after, oracle = "raise"), K2)
  IN  Bind(r, K)

\* Actions._json_notify_and_exit_when_invalid(manual_input): the text is the
\* manual input when that is given and not empty, else the clipboard; the
\* empty text is never JSON.
_json_notify_and_exit_when_invalid(w, manual_input, oracle) ==
  LET r == IF Truthy(manual_input) THEN Return(w, manual_input[1])
           ELSE read_clipboard(w, TRUE, FALSE)
      K(r1) ==
        IF oracle = "invalid" \/ r1.val = <<>>
        THEN LET e == display_notification_error(
                        r1.w, <<"Invalid JSON !!!!!!!!!!">>, ErrorPrefix)
                 K2(r2) == Exit(r2.w, 1)
             IN  Bind(e, K2)
        ELSE r1
  IN  Bind(r, K)

\* A value as json.loads returns it: t is its Python type ("null", "bool",
\* "int", "float", "str", "list" or "dict") and v its content: the number (a
\* float in tenths), the text, the items, or the pairs [k, v] of a dict in
\* insertion order.  J("raise", exc) stands for an exception raised instead of
\* a value, and J("text", s) for a str that a function builds.
J(t, v) == [t |-> t, v |-> v]

\* bool(x)
JTruthy(x) ==
  IF x.t = "null" THEN FALSE
  ELSE IF x.t = "bool" THEN x.v
  ELSE IF x.t \in {"int", "float"} THEN x.v # 0
  ELSE x.v # <<>>

\* a == b: numbers and booleans compare by value, dicts regardless of order
RECURSIVE PyEq(_, _)
PyEq(a, b) ==
  LET numeric == {"bool", "int", "float"}
      tenths(x) == IF x.t = "bool" THEN (IF x.v THEN 10 ELSE 0)
                   ELSE IF x.t = "int" THEN 10 * x.v ELSE x.v
  IN  IF a.t \in numeric /\ b.t \in numeric THEN tenths(a) = tenths(b)
      ELSE IF a.t # b.t THEN FALSE
      ELSE IF a.t = "null" THEN TRUE
      ELSE IF a.t = "str" THEN a.v = b.v
      ELSE IF a.t = "list"
           THEN Len(a.v) = Len(b.v) /\ \A i \in DOMAIN a.v : PyEq(a.v[i], b.v[i])
           ELSE /\ Len(a.v) = Len(b.v)
                /\ \A i \in DOMAIN a.v :
                     \E j \in DOMAIN b.v : a.v[i].k = b.v[j].k /\ PyEq(a.v[i].v, b.v[j].v)

\* Reusable.dict_merge, lines 111-113: the values of new that list has nothing
\* equal to are appended to it.
RECURSIVE AppendMissing(_, _)
AppendMissing(list, new) ==
  IF new = <<>> THEN list
  ELSE AppendMissing(IF \E i \in DOMAIN list : PyEq(list[i], Head(new))
                     THEN list ELSE Append(list, Head(new)),
                     Tail(new))

\* Reusable.dict_merge, lines 100-115: the loop over the pairs of merge_dct,
\* from the i-th on; rtn is the pairs of rtn_dct.
RECURSIVE MergeKeys(_, _, _)
MergeKeys(rtn, merge_dct, i) ==
  IF i > Len(merge_dct) THEN J("dict", rtn)
  ELSE LET k == merge_dct[i].k
           v == merge_dct[i].v
           at == {j \in DOMAIN rtn : rtn[j].k = k}
           j == CHOOSE n \in at : TRUE
           set(x) == IF at = {} THEN Append(rtn, [k |-> k, v |-> x])
                     ELSE [rtn EXCEPT ![j].v = x]
       IN  IF at = {} \/ ~JTruthy(rtn[j].v) THEN MergeKeys(set(v), merge_dct, i + 1)
           ELSE IF v.t = "null" THEN MergeKeys(rtn, merge_dct, i + 1)
           ELSE IF ~(v.t = rtn[j].v.t \/ (v.t = "bool" /\ rtn[j].v.t = "int"))
           THEN J("raise", "TypeError")
           ELSE IF rtn[j].v.t = "dict"
           THEN LET m == MergeKeys(rtn[j].v.v, v.v, 1)
                IN  IF m.t = "raise" THEN m ELSE MergeKeys(set(m), merge_dct, i + 1)
           ELSE IF v.t = "list"
           THEN MergeKeys(set(J("list", AppendMissing(rtn[j].v.v, v.v))), merge_dct, i + 1)
           ELSE MergeKeys(set(v), merge_dct, i + 1)

\* Reusable.dict_merge(*args)
RECURSIVE dict_merge(_)
dict_merge(args) ==
  IF Len(args) = 1 THEN args[1]
  ELSE LET m == MergeKeys(args[1].v, args[2].v, 1)
       IN  IF m.t = "raise" THEN m ELSE dict_merge(<<m>> \o SubSeq(args, 3, Len(args)))

\* Actions._strip_json_for_spark.run_strip, lines 1031-1045: the loop that
\* looks for one type for the values of a list, from the i-th value on.
\* J("stop", <<>>) stands for its return of ["x"].
RECURSIVE ListScan(_, _, _)
ListScan(obj, i, single_value) ==
  IF i > Len(obj) THEN single_value
  ELSE LET value == obj[i]
           number == {"bool", "int", "float"}
       IN  IF single_value.t = "str" \/ value.t = "str" THEN J("stop", <<>>)
           ELSE IF single_value.t # value.t
           THEN IF single_value.t \in number /\ value.t \in number
                THEN ListScan(obj, i + 1, IF single_value.t # "float" THEN J("float", 11)
                                          ELSE single_value)
                ELSE J("stop", <<>>)
           ELSE ListScan(obj, i + 1, single_value)

\* Actions._strip_json_for_spark.run_strip
RECURSIVE run_strip(_)
run_strip(obj) ==
  LET x == J("str", <<"x">>)
  IN  IF obj.t \in {"null", "str"} THEN x
      ELSE IF obj.t = "bool" THEN obj
      ELSE IF obj.t = "int" THEN J("int", 1)
      ELSE IF obj.t = "float" THEN J("float", 11)
      ELSE IF obj.t = "list"
      THEN LET items == SelectSeq(obj.v, LAMBDA e : e.t # "null")
               in_list(stripped) == IF stripped.t = "raise" THEN stripped
                                    ELSE J("list", <<stripped>>)
               strip(merged) == IF merged.t = "raise" THEN merged ELSE run_strip(merged)
               by_type(single_value) ==
                 IF single_value.t = "stop" THEN J("list", <<x>>)
                 ELSE IF single_value.t = "int" THEN J("int", 1)
                 ELSE IF single_value.t = "float" THEN J("float", 11)
                 ELSE IF single_value.t \notin {"list", "dict"} THEN single_value
                 ELSE IF single_value.t = "list" THEN J("list", <<J("list", <<x>>)>>)
                 ELSE in_list(strip(IF Len(items) = 1 THEN items[1] ELSE dict_merge(items)))
           IN  IF items = <<>> THEN J("list", <<x>>)
               ELSE by_type(ListScan(items, 1, items[1]))
      ELSE IF obj.v = <<>> THEN J("str", <<"{", "}">>)
      ELSE LET values == [i \in DOMAIN obj.v |-> run_strip(obj.v[i].v)]
           IN  IF \E i \in DOMAIN values : values[i].t = "raise"
               THEN J("raise", "TypeError")
               ELSE J("dict", [i \in DOMAIN obj.v |-> [k |-> obj.v[i].k, v |-> values[i]]])

\* Actions.action_spark_from_json.flatten
RECURSIVE flatten(_)
flatten(obj) ==
  IF obj.t = "list" THEN J("list", [i \in DOMAIN obj.v |-> flatten(obj.v[i])])
  ELSE IF obj.t = "dict"
  THEN J("dict", [i \in DOMAIN obj.v |->
                    [k |-> obj.v[i].k,
                     v |-> IF obj.v[i].v.t = "dict" THEN J("str", <<"{", "}">>)
                           ELSE IF obj.v[i].v.t = "list" THEN J("list", <<J("str", <<"x">>)>>)
                           ELSE obj.v[i].v]])
  ELSE obj

\* A check that looks at the keys of the root only.
check_root_for_invalid_characters(input_var) ==
  IF input_var.t = "dict"
  THEN {input_var.v[i].k : i \in {n \in DOMAIN input_var.v :
                                     \E c \in DOMAIN input_var.v[n].k :
                                       ~IsWord(input_var.v[n].k[c])}}
  ELSE {}

\* Actions.action_spark_from_json.check_for_invalid_characters: the set of the
\* keys in which re.findall(r'\W', k) finds a character; the function returns
\* None when the set is empty.
RECURSIVE check_for_invalid_characters(_)
check_for_invalid_characters(input_var) ==
  IF input_var.t = "dict"
  THEN UNION {(IF \E c \in DOMAIN input_var.v[i].k : ~IsWord(input_var.v[i].k[c])
               THEN {input_var.v[i].k} ELSE {})
              \cup check_for_invalid_characters(input_var.v[i].v) : i \in DOMAIN input_var.v}
  ELSE IF input_var.t = "list"
  THEN UNION {check_for_invalid_characters(input_var.v[i]) : i \in DOMAIN input_var.v}
  ELSE {}

\* Actions.action_spark_from_json.format_for_spark
RECURSIVE format_for_spark(_)
format_for_spark(_input_str) ==
  IF _input_str.t = "str" THEN J("text", <<"STRING">>)
  ELSE IF _input_str.t = "bool" THEN J("text", <<"BOOLEAN">>)
  ELSE IF _input_str.t = "float" THEN J("text", <<"DOUBLE">>)
  ELSE IF _input_str.t = "int" THEN J("text", <<"BIGINT">>)
  ELSE IF _input_str.t = "dict"
  THEN LET types == [i \in DOMAIN _input_str.v |-> format_for_spark(_input_str.v[i].v)]
           raised == {i \in DOMAIN types : types[i].t = "raise"}
           field(i) == _input_str.v[i].k \o <<": ">> \o types[i].v
       IN  IF raised # {} THEN types[CHOOSE i \in raised : \A n \in raised : i <= n]
           ELSE J("text", <<"STRUCT<">>
                          \o Join(<<", ">>, [i \in DOMAIN types |-> field(i)]) \o <<">">>)
  ELSE IF _input_str.t = "list"
  THEN IF _input_str.v = <<>> THEN J("raise", "IndexError")
       ELSE LET type == format_for_spark(_input_str.v[1])
            IN  IF type.t = "raise" THEN type
                ELSE J("text", <<"ARRAY<">> \o type.v \o <<">">>)
  ELSE J("raise", "TypeError")

\* list(set(invalid_keys)): the keys in one of the orders a set may have
Orders(keys) == {o \in [1..Cardinality(keys) -> keys] : \A k \in keys : \E i \in DOMAIN o : o[i] = k}

\* Actions.action_spark_from_json(recursive, block_invalid_keys) from line 1152
\* on, for the value json_loaded that _json_notify_and_exit_when_invalid
\* returned; order is the order in which list(set(...)) gives the invalid keys.
action_spark_from_json(w, main, json_loaded, recursive, block_invalid_keys, order) ==
  LET K2(r2) == Return(r2.w, <<>>)
      K(r1) == Bind(display_notification_error(
                      r1.w, <<"INVALID KEY IN JSON: ">> \o Join(<<", ">>, order),
                      ErrorPrefix), K2)
      K3(r3) == write_clipboard(r3.w, main, <<"Unmapped data type: ">>, FALSE)
      blocked(error) ==
        Bind(write_clipboard(w, main, <<"\n***** ">> \o error \o <<" *****\n\n">>, TRUE), K)
      convert(invalid, type) ==
        IF block_invalid_keys /\ invalid # {}
        THEN blocked(<<"INVALID KEY IN JSON: ">> \o Join(<<", ">>, order))
        ELSE IF type.t = "raise"
        THEN IF type.v = "TypeError"
             THEN Bind(fail_action_with_exception(w, main, "TypeError"), K3)
             ELSE Raise(w, type.v)
        ELSE write_clipboard(w, main, <<"FROM_JSON(result, '">> \o type.v
                                        \o <<"') AS result_struct">>, FALSE)
      check(json_updated) ==
        convert(check_for_invalid_characters(json_updated), format_for_spark(json_updated))
      update(stripped) ==
        IF stripped.t = "raise" THEN Raise(w, stripped.v)
        ELSE check(IF recursive THEN stripped ELSE flatten(stripped))
  IN  update(run_strip(json_loaded))

\* What json.loads returns for the clipboard text, by the oracle of the run:
\* {"a": "s"}, {"a ": 7} and [{"a": 7}, {"a": "s"}], whose dicts dict_merge
\* cannot merge.
JsonOf(oracle) ==
  IF oracle = "invalid_key" THEN J("dict", <<[k |-> <<"a", " ">>, v |-> J("int", 7)]>>)
  ELSE IF oracle = "raise"
  THEN J("list", << J("dict", <<[k |-> <<"a">>, v |-> J("int", 7)]>>),
                    J("dict", <<[k |-> <<"a">>, v |-> J("str", <<"s">>)]>>) >>)
  ELSE J("dict", <<[k |-> <<"a">>, v |-> J("str", <<"s">>)]>>)

FromJsonCallbacks ==
  {"action_spark_from_json", "action_spark_from_json_allow_invalid",
   "action_spark_from_json_non_recursive",
   "action_spark_from_json_non_recursive_allow_invalid"}

\* block_invalid_keys of action_spark_from_json
BlockingFromJson == {"action_spark_from_json", "action_spark_from_json_non_recursive"}

\* recursive of action_spark_from_json
RecursiveFromJson == {"action_spark_from_json", "action_spark_from_json_allow_invalid"}

\* Actions.action_spark_from_json and its three variants, and
\* Actions.action_json_to_schema_of_json: the clipboard is read, its
\* apostrophes are dropped, and the text is parsed; the value json.loads
\* returns for it is JsonOf(oracle), which has one invalid key at most.
from_json_callback(w, main, cb, oracle) ==
  LET order(invalid) == [i \in 1..Cardinality(invalid) |-> CHOOSE k \in invalid : TRUE]
      schema(r2, stripped) ==
        IF stripped.t = "raise" THEN Raise(r2.w, stripped.v)
        ELSE write_clipboard(r2.w, main, <<cb>> \o r2.val, FALSE)
      K2(r2) ==
        IF cb \in FromJsonCallbacks
        THEN action_spark_from_json(
               r2.w, main, JsonOf(oracle), cb \in RecursiveFromJson, cb \in BlockingFromJson,
               order(check_for_invalid_characters(run_strip(JsonOf(oracle)))))
        ELSE schema(r2, run_strip(JsonOf(oracle)))
      K(r1) == Bind(_json_notify_and_exit_when_invalid(
                      r1.w, Some(RemoveChar(r1.val, "'")), oracle), K2)
  IN  Bind(read_clipboard(w, TRUE, FALSE), K)

\* Actions.sanitize_logichub_json: the clipboard is validated, then read and
\* validated again by _process_json_clipboard.
sanitize_callback(w, main, cb, oracle) ==
  LET K2(r2) == IF oracle = "raise" THEN Raise(r2.w, "KeyError")
                ELSE write_clipboard(r2.w, main, <<cb>> \o r2.val, FALSE)
      K(r1) == Bind(_json_notify_and_exit_when_invalid(r1.w, None, oracle), K2)
  IN  Bind(_json_notify_and_exit_when_invalid(w, None, oracle), K)

\* Actions.logichub_runtime_stats_to_json and logichub_runtime_stats_to_csv,
\* with Actions._logichub_runtime_stats_sort_by_longest; with oracle
\* "invalid_key" the JSON has no runtimeStats.
runtime_stats_callback(w, main, cb, oracle) ==
  LET total(r3) == display_notification(r3.w, <<"Total processing time: ">>)
      K2(r2) == Return(r2.w, <<>>)
      K(r1) ==
        IF oracle = "invalid_key"
        THEN Bind(display_notification_error(
                    r1.w, <<"runtimeStats key not found">>, ErrorPrefix), K2)
        ELSE IF oracle = "raise" THEN Raise(r1.w, "TypeError")
        ELSE IF cb = "logichub_runtime_stats_to_csv" THEN total(r1)
        ELSE Bind(write_clipboard(r1.w, main, <<cb>> \o r1.val, FALSE), total)
  IN  Bind(_json_notify_and_exit_when_invalid(w, None, oracle), K)

\* The callbacks that parse the clipboard as JSON.
json_callback(w, main, cb, oracle) ==
  IF cb = "sanitize_logichub_json" THEN sanitize_callback(w, main, cb, oracle)
  ELSE IF cb \in {"logichub_runtime_stats_to_json", "logichub_runtime_stats_to_csv"}
  THEN runtime_stats_callback(w, main, cb, oracle)
  ELSE from_json_callback(w, main, cb, oracle)

\* Actions.logichub_dsl_reformat_simple and logichub_dsl_reformat_pretty
dsl_callback(w, main, cb, oracle) ==
  LET r == read_clipboard(w, TRUE, FALSE)
      K2(r2) == Raise(r2.w, "AttributeError")
      K(r1) ==
        IF oracle = "raise" THEN Raise(r1.w, "error")
        ELSE IF oracle = "invalid"
        THEN Bind(display_notification_error(
                    r1.w, <<"Input not recognized as valid DSL">>, ErrorPrefix), K2)
        ELSE write_clipboard(r1.w, main, <<cb>> \o r1.val, FALSE)
  IN  Bind(r, K)

\* The upgrade-preparation callbacks, which copy a script of the repository.
file_callback(w, main, cb, oracle) ==
  LET K2(r2) == Raise(r2.w, "FileNotFoundError")
  IN  IF oracle = "invalid"
      THEN Bind(display_notification_error(
                  w, <<"Invalid path to supporting script">>, ErrorPrefix), K2)
      ELSE IF oracle = "raise" THEN Raise(w, "ValueError")
      ELSE write_clipboard(w, main, <<cb>>, FALSE)

\* self.action_list[action].action()
RunCallback(w, main, cb, oracle) ==
  IF cb \in StaticCallbacks THEN static_callback(w, main, cb)
  ELSE IF cb \in TabsCallbacks THEN tabs_callback(w, main, cb)
  ELSE IF cb \in ReadwriteCallbacks THEN read_write_callback(w, main, cb)
  ELSE IF cb \in TableCallbacks THEN table_callback(w, main, cb)
  ELSE IF cb \in UpgradeCallbacks THEN upgrade_callback(w, main, cb)
  ELSE IF cb \in UpgradeStaticCallbacks THEN upgrade_static_callback(w, main, cb)
  ELSE IF cb \in CaseCallbacks THEN case_callback(w, main, cb)
  ELSE IF cb \in PrettyCallbacks THEN pretty_callback(w, main, cb, oracle)
  ELSE IF cb \in JsonCallbacks THEN json_callback(w, main, cb, oracle)
  ELSE IF cb \in DslCallbacks THEN dsl_callback(w, main, cb, oracle)
  ELSE file_callback(w, main, cb, oracle)

\* Actions.execute_plugin(action), for an action that is a key of the table:
\* the try block around the callback and its handler.
DispatchOutcome(w, main, cb, oracle) ==
  LET except(r) == IF r.ctl = "raise" THEN fail_action_with_exception(r.w, main, r.exc)
                   ELSE r
  IN  except(RunCallback(w, main, cb, oracle))

----------------------------------------------------------------------------
(* The run of the script.                                                   *)

VARIABLES
  pc,            \* where main() is: "main", "configured", "constructed", "exited"
  args,          \* get_args(): [action, list_actions]
  file,          \* the user's ini file, as ConfigObj reads it
  env,           \* [images_readable, oracle]
  main,          \* Config.main
  action_list,   \* Actions.action_list: identifier -> ActionObject
  menu_output,   \* Actions.menu_output, line by line
  clipboard,     \* the text in the OS clipboard
  events,        \* clipboard reads and writes, beeps and notifications, in order
  stdout,        \* what the run printed
  stderr,        \* the exception that ended the run, if one did
  exit_code,     \* None while the process runs, then Some(code)
  dispatched,    \* the callbacks invoked through action_list, in order
  pp_stage, pp_in, pp_wrap, pp_out1, pp_out2,  \* SpecPretty
  js_stage, js_cb, js_in, js_out               \* SpecJson

vars == <<pc, args, file, env, main, action_list, menu_output, clipboard, events,
          stdout, stderr, exit_code, dispatched, pp_stage, pp_in, pp_wrap, pp_out1, pp_out2,
          js_stage, js_cb, js_in, js_out>>

prettyVars == <<pp_stage, pp_in, pp_wrap, pp_out1, pp_out2>>

jsonVars == <<js_stage, js_cb, js_in, js_out>>

\* One callback of every group, and the statements that register them.
SampleCallbacks ==
  {"logichub_pretty_print_sql", "logichub_pretty_print_sql_wrapped",
   "logichub_tabs_to_columns_and_quotes_sorted", "logichub_sql_start_from_table_name",
   "logichub_sql_start_without_table_name", "logichub_dsl_batch_info",
   "logichub_operator_start_fetchAlerts_with_table", "action_spark_from_json",
   "logichub_runtime_stats_to_json", "sanitize_logichub_json",
   "logichub_dsl_reformat_simple",
   "logichub_upgrade_prep_backups", "logichub_upgrade_command_from_clipboard",
   "logichub_upgrade_command_static", "db_postgres_cases_total_size"}

SampleStatements == {n \in Registrations : InitProgram[n].action \in SampleCallbacks}

\* The action arguments of the model: none, the empty text, identifiers as the
\* menu lines carry them, display names as a user may type them, and texts
\* that name no action.
ActionArgs ==
  {None, Some(<<>>)}
  \cup {Some(Sanitize(InitProgram[n].name)) : n \in SampleStatements}
  \cup {Some(InitProgram[n].name) :
          n \in {k \in SampleStatements :
                   InitProgram[k].action \in {"logichub_dsl_batch_info",
                                              "logichub_operator_start_fetchAlerts_with_table"}}}
  \cup {Some(UnknownArg(n)) : n \in 1..MaxUnknownArgs}
  \cup {Some(Lower(InitProgram[n].name)) :
          n \in {k \in SampleStatements : InitProgram[k].action = "logichub_pretty_print_sql"}}

\* The action arguments tried together with --list: none, and an identifier.
ListRunArgs ==
  {None} \cup {Some(Sanitize(InitProgram[n].name)) :
                 n \in {k \in SampleStatements :
                          InitProgram[k].action = "logichub_sql_start_without_table_name"}}

\* The clipboard texts of the model.
ClipboardTexts ==
  { <<>>,
    <<"t","1">>,
    <<" ","a"," ","b","\n">>,
    <<"M","8","6",".","2">>,
    <<"8",".","2">>,
    <<"4","2">>,
    <<"TICK","TICK","a","TICK","TICK">> }

\* The variables of SpecJson in the other specifications.
NoJson ==
  /\ js_stage = "off"
  /\ js_cb = ""
  /\ js_in = J("null", <<>>)
  /\ js_out = Return(World(<<>>, <<>>), <<>>)

\* The state when main() starts.  A run with --list is drawn with one
\* clipboard text and one oracle, and with its two kinds of action argument:
\* absent, and an identifier of the dispatch table.
Init ==
  /\ pc = "main"
  /\ args \in [action : ActionArgs, list_actions : BOOLEAN]
  /\ \E i \in DOMAIN IniFiles : file = IniFiles[i]
  /\ env \in [images_readable : BOOLEAN, oracle : Oracles]
  /\ main = NoConfig
  /\ action_list = [k \in {} |-> <<>>]
  /\ menu_output = <<>>
  /\ clipboard \in ClipboardTexts
  /\ args.list_actions =>
       /\ args.action \in ListRunArgs
       /\ clipboard = <<"t","1">>
       /\ env.oracle = "ok"
  /\ events = <<>>
  /\ stdout = <<>>
  /\ stderr = <<>>
  /\ exit_code = None
  /\ dispatched = <<>>
  /\ pp_stage = "off"
  /\ pp_in = <<>>
  /\ pp_wrap = 0
  /\ pp_out1 = <<>>
  /\ pp_out2 = <<>>
  /\ NoJson

Printed(what, body) == [what |-> what, body |-> body]

\* A process that goes on after the point where it should have ended.
TerminateAndGoOn(code) ==
  /\ pc' = pc
  /\ exit_code' = Some(code)

\* The process ends: sys.exit(code), a return from main() (code 0), or an
\* exception that nothing catches (code 1, the traceback on stderr).
Terminate(code) ==
  /\ pc' = "exited"
  /\ exit_code' = Some(code)

\* config = Config(): Config.__post_init__
LoadConfig ==
  /\ pc = "main"
  /\ LET outcome == ConfigOutcome(file, <<"L","i","g","h","t">>)
     IN  IF outcome = "ok"
         THEN /\ main' = get_config_main(Get(file, "main", EmptySection), <<"L","i","g","h","t">>)
              /\ pc' = "configured"
              /\ UNCHANGED <<stdout, stderr, exit_code>>
         ELSE /\ Terminate(1)
              /\ stdout' = IF outcome = "KeyError" THEN stdout
                           ELSE Append(stdout, Printed(outcome, <<>>))
              /\ stderr' = IF outcome = "KeyError" THEN Append(stderr, outcome) ELSE stderr
              /\ UNCHANGED main
  /\ UNCHANGED <<args, file, env, action_list, menu_output, clipboard, events, dispatched>>
  /\ UNCHANGED prettyVars
  /\ UNCHANGED jsonVars

\* bar = Actions(config)
ConstructActions ==
  /\ pc = "configured"
  /\ LET self == Actions__init__(main, env.images_readable)
     IN  IF self.raised = ""
         THEN /\ action_list' = self.action_list
              /\ menu_output' = self.menu_output
              /\ pc' = "constructed"
              /\ UNCHANGED <<stderr, exit_code>>
         ELSE /\ Terminate(1)
              /\ stderr' = Append(stderr, self.raised)
              /\ UNCHANGED <<action_list, menu_output>>
  /\ UNCHANGED <<args, file, env, main, clipboard, events, stdout, dispatched>>
  /\ UNCHANGED prettyVars
  /\ UNCHANGED jsonVars

\* main(): the --list branch.  One entry is printed per key, in sorted order.
ListActions ==
  /\ pc = "constructed"
  /\ args.list_actions
  /\ LET keys == Sorted(DOMAIN action_list)
     IN  stdout' = Append(stdout, Printed("list", [i \in DOMAIN keys |-> action_list[keys[i]]]))
  /\ Terminate(0)
  /\ UNCHANGED <<args, file, env, main, action_list, menu_output, clipboard, events,
                 stderr, dispatched>>
  /\ UNCHANGED prettyVars
  /\ UNCHANGED jsonVars

\* A menu printed in place of the menu: nothing of the buffer reaches stdout.
print_menu_output_empty(out, menu) == Append(out, Printed("menu", <<>>))

\* Actions.print_menu_output: print(self.menu_output.strip())
print_menu_output(out, menu) == Append(out, Printed("menu", menu))

\* log.debug(...) of execute_plugin
DebugLine == IF IsTrue(main.debug_output_enabled) THEN <<Printed("debug", <<>>)>> ELSE <<>>

\* An execute_plugin that prints the menu for an action it does not know.
ExecutePluginMenuForUnknown ==
  /\ pc = "constructed"
  /\ ~args.list_actions
  /\ IF ~Truthy(args.action) \/ Sanitize(args.action[1]) \notin DOMAIN action_list
     THEN /\ stdout' = print_menu_output(stdout \o DebugLine, menu_output)
          /\ Terminate(0)
          /\ UNCHANGED <<clipboard, events, stderr, dispatched>>
     ELSE LET end(cb, r) ==
                /\ dispatched' = Append(dispatched, cb)
                /\ clipboard' = r.w.clip
                /\ events' = r.w.ev
                /\ stdout' = stdout \o DebugLine
                /\ Terminate(IF r.ctl = "exit" THEN r.code ELSE 0)
                /\ UNCHANGED stderr
          IN  end(action_list[Sanitize(args.action[1])].action,
                  DispatchOutcome(World(clipboard, events), main,
                                  action_list[Sanitize(args.action[1])].action, env.oracle))
  /\ UNCHANGED <<args, file, env, main, action_list, menu_output>>
  /\ UNCHANGED prettyVars
  /\ UNCHANGED jsonVars

\* bar.execute_plugin(args.action), and the end of main()
ExecutePlugin ==
  /\ pc = "constructed"
  /\ ~args.list_actions
  /\ IF ~Truthy(args.action)
     THEN \* self.print_menu_output(); return
          /\ stdout' = print_menu_output(stdout \o DebugLine, menu_output)
          /\ Terminate(0)
          /\ UNCHANGED <<clipboard, events, stderr, dispatched>>
     ELSE LET action == Sanitize(args.action[1])
          IN  IF action \notin DOMAIN action_list
              THEN \* raise Exception("Not a valid action")
                   /\ stderr' = Append(stderr, "Exception: Not a valid action")
                   /\ stdout' = stdout \o DebugLine
                   /\ Terminate(1)
                   /\ UNCHANGED <<clipboard, events, dispatched>>
              ELSE LET end(cb, r) ==
                         /\ dispatched' = Append(dispatched, cb)
                         /\ clipboard' = r.w.clip
                         /\ events' = r.w.ev
                         /\ stdout' = stdout \o DebugLine
                         /\ Terminate(IF r.ctl = "exit" THEN r.code ELSE 0)
                         /\ UNCHANGED stderr
                   IN  end(action_list[action].action,
                           DispatchOutcome(World(clipboard, events), main,
                                           action_list[action].action, env.oracle))
  /\ UNCHANGED <<args, file, env, main, action_list, menu_output>>
  /\ UNCHANGED prettyVars
  /\ UNCHANGED jsonVars

Next == LoadConfig \/ ConstructActions \/ ListActions \/ ExecutePlugin

Spec == Init /\ [][Next]_vars

----------------------------------------------------------------------------
(* SpecPretty: pretty_print_sql applied to a SQL text and then to its own   *)
(* output.                                                                  *)

\* The longest SQL text drawn from SqlAlphabet.
MaxSqlLen == 3

SqlAlphabet == {"TICK", "\\", "a", " ", "\n", "+", "1"}

SqlTexts ==
  UNION {[1..n -> SqlAlphabet] : n \in 0..MaxSqlLen}
  \cup {<<"s","e","l","e","c","t"," ","*"," ","f","r","o","m"," ","t">>, <<"s","e","l","e","c","t"," ","r","e","s","u","l","t"," ","f","r","o","m"," ","t">>, <<"S","E","L","E","C","T"," ","m","i","n","(","a",")","-","1","\n","f","r","o","m"," ","TICK","t","TICK">>, <<"TICK","TICK","a","TICK","TICK">>}

\* wrap_after of the three Pretty Print SQL actions
WrapSettings == {0, 80, 99999}

InitPretty ==
  /\ pc = "off"
  /\ args = [action |-> None, list_actions |-> FALSE]
  /\ file = EmptyIni
  /\ env = [images_readable |-> TRUE, oracle |-> "ok"]
  /\ main = NoConfig
  /\ action_list = [k \in {} |-> <<>>]
  /\ menu_output = <<>>
  /\ clipboard = <<>>
  /\ events = <<>>
  /\ stdout = <<>>
  /\ stderr = <<>>
  /\ exit_code = None
  /\ dispatched = <<>>
  /\ pp_stage = "input"
  /\ pp_in \in SqlTexts
  /\ pp_wrap \in WrapSettings
  /\ pp_out1 = <<>>
  /\ pp_out2 = <<>>
  /\ NoJson

\* _output = self.pretty_print_sql(pp_in, wrap_after=pp_wrap)
PrettyOnce ==
  /\ pp_stage = "input"
  /\ pp_out1' = pretty_print_sql(World(<<>>, <<>>), pp_in, pp_wrap, FALSE).val
  /\ pp_stage' = "once"
  /\ UNCHANGED <<pp_in, pp_wrap, pp_out2>>
  /\ UNCHANGED <<pc, args, file, env, main, action_list, menu_output, clipboard, events,
                 stdout, stderr, exit_code, dispatched>>
  /\ UNCHANGED jsonVars

\* the same call on the text the first call returned
PrettyTwice ==
  /\ pp_stage = "once"
  /\ pp_out2' = pretty_print_sql(World(<<>>, <<>>), pp_out1, pp_wrap, FALSE).val
  /\ pp_stage' = "twice"
  /\ UNCHANGED <<pp_in, pp_wrap, pp_out1>>
  /\ UNCHANGED <<pc, args, file, env, main, action_list, menu_output, clipboard, events,
                 stdout, stderr, exit_code, dispatched>>
  /\ UNCHANGED jsonVars

NextPretty == PrettyOnce \/ PrettyTwice

SpecPretty == InitPretty /\ [][NextPretty]_vars

----------------------------------------------------------------------------
(* SpecClipboard: runs of the script that dispatch one action that builds   *)
(* its output from the clipboard, for every short clipboard text over the   *)
(* characters that matter to the action.                                    *)

\* The longest clipboard text drawn from an alphabet.
MaxClipLen == 4

TextsOver(alphabet) == UNION {[1..n -> alphabet] : n \in 0..MaxClipLen}

\* The identifier under which Actions.__init__ registers a callback.
IdOf(cb) ==
  Sanitize(InitProgram[CHOOSE n \in Registrations : InitProgram[n].action = cb].name)

TableNameCallbacks ==
  {"logichub_sql_start_from_table_name", "logichub_sql_start_with_integ_error_check",
   "logichub_dsl_integ_error_check_forceFail_and_dropColumns", "logichub_dsl_batch_info",
   "logichub_operator_start_dropColumns"}

UpgradeFromClipboardCallbacks ==
  {"logichub_upgrade_command_from_clipboard",
   "logichub_upgrade_command_from_clipboard_with_backup_script"}

\* The runs of SpecClipboard: a callback and the text in the clipboard.
ClipboardRuns ==
  ({"logichub_tabs_to_columns_and_quotes_sorted"}
     \X (TextsOver({"a", "b", "\t", " "})
           \cup {<<"b","\t","B","\t","a">>, <<"a",",","b">>, <<"b", "\r", "\n", "a", "b">>}))
  \cup (TableNameCallbacks
          \X (TextsOver({"t", "_", " ", "\n"}) \cup {<<"t","1","\t","t","2">>}))
  \cup (UpgradeFromClipboardCallbacks
          \X (TextsOver({"1", ".", "m", " ", "M"})
                \cup {<<"m","8","6",".","1","0">>, <<"8","6",".","x">>}))
  \cup ({"db_postgres_cases_total_size"}
          \X (TextsOver({"1", "a", "-", "\n", "\r"}) \cup {<<"4","2","0","7","1">>}))

\* The ini file of the runs: the defaults, and notifications switched on.
ClipboardIniFiles ==
  <<[main |-> [repo_path |-> <<"/","r">>]],
    [main |-> [repo_path |-> <<"/","r">>, clipboard_update_notifications |-> <<"t","r","u","e">>]]>>

InitClipboard ==
  /\ pc = "main"
  /\ \/ \E run \in ClipboardRuns :
          /\ args = [action |-> Some(IdOf(run[1])), list_actions |-> FALSE]
          /\ clipboard = run[2]
          /\ file = ClipboardIniFiles[1]
     \/ /\ args \in {[action |-> None, list_actions |-> TRUE],
                     [action |-> Some(IdOf("logichub_dsl_batch_info")), list_actions |-> FALSE]}
        /\ clipboard = <<"t", " ", "1">>
        /\ file = ClipboardIniFiles[2]
  /\ env = [images_readable |-> TRUE, oracle |-> "ok"]
  /\ main = NoConfig
  /\ action_list = [k \in {} |-> <<>>]
  /\ menu_output = <<>>
  /\ events = <<>>
  /\ stdout = <<>>
  /\ stderr = <<>>
  /\ exit_code = None
  /\ dispatched = <<>>
  /\ pp_stage = "off"
  /\ pp_in = <<>>
  /\ pp_wrap = 0
  /\ pp_out1 = <<>>
  /\ pp_out2 = <<>>
  /\ NoJson

SpecClipboard == InitClipboard /\ [][Next]_vars

----------------------------------------------------------------------------
(* SpecJson: action_spark_from_json and its three variants on the value     *)
(* that json.loads returned for the clipboard text.                         *)

\* The longest list of a JSON value.
MaxJsonLen == 2

\* null, "s", 0, 7, 2.5 and true
JsonScalars ==
  {J("null", <<>>), J("str", <<"s">>), J("int", 0), J("int", 7), J("float", 25),
   J("bool", TRUE)}

\* The dicts with one key, and the empty dict.
JsonSmallDicts ==
  {J("dict", <<>>)}
  \cup {J("dict", <<[k |-> k, v |-> v]>>) :
          k \in {<<"a">>, <<"c", " ">>}, v \in JsonScalars \cup {J("list", <<J("int", 7)>>)}}

JsonListsOf(values) == {J("list", items) : items \in UNION {[1..n -> values] : n \in 0..MaxJsonLen}}

\* The values under the root: scalars, lists of scalars, lists of dicts, a
\* list of lists, and dicts.
JsonValues ==
  JsonScalars \cup JsonListsOf(JsonScalars) \cup JsonListsOf(JsonSmallDicts)
  \cup JsonSmallDicts
  \cup {J("list", <<J("list", <<J("int", 7)>>)>>),
        J("dict", <<[k |-> <<"a">>, v |-> J("dict", <<[k |-> <<"c", " ">>, v |-> J("int", 7)]>>)]>>)}

\* What the validation lets through: the dicts and the lists that are not
\* empty.
JsonRoots ==
  {J("dict", <<[k |-> k, v |-> v]>>) : k \in {<<"a">>, <<"c", " ">>}, v \in JsonValues}
  \cup {J("dict", <<[k |-> k1, v |-> v], [k |-> k2, v |-> J("list", <<J("str", <<"s">>)>>)]>>) :
          k1 \in {<<"b">>, <<"c", " ">>}, k2 \in {<<"a">>, <<"d", "-">>}, v \in JsonValues}
  \cup {J("list", <<v>>) : v \in JsonValues}

InitJson ==
  /\ pc = "off"
  /\ args = [action |-> None, list_actions |-> FALSE]
  /\ file = EmptyIni
  /\ env = [images_readable |-> TRUE, oracle |-> "ok"]
  /\ main \in {NoConfig, [NoConfig EXCEPT !.clipboard_update_notifications = Bool(TRUE)]}
  /\ action_list = [k \in {} |-> <<>>]
  /\ menu_output = <<>>
  /\ clipboard = <<>>
  /\ events = <<>>
  /\ stdout = <<>>
  /\ stderr = <<>>
  /\ exit_code = None
  /\ dispatched = <<>>
  /\ pp_stage = "off"
  /\ pp_in = <<>>
  /\ pp_wrap = 0
  /\ pp_out1 = <<>>
  /\ pp_out2 = <<>>
  /\ js_stage = "input"
  /\ js_cb \in FromJsonCallbacks
  /\ js_in \in JsonRoots
  /\ js_out = Return(World(<<>>, <<>>), <<>>)

\* The callback from line 1152 on, and the handler of execute_plugin for what
\* it raises.
FromJson ==
  /\ js_stage = "input"
  /\ \E order \in Orders(check_for_invalid_characters(
                           IF js_cb \in RecursiveFromJson THEN run_strip(js_in)
                           ELSE flatten(run_strip(js_in)))) :
       LET except(r) == IF r.ctl = "raise" THEN fail_action_with_exception(r.w, main, r.exc)
                        ELSE r
       IN  js_out' = except(action_spark_from_json(World(<<>>, <<>>), main, js_in,
                                                   js_cb \in RecursiveFromJson,
                                                   js_cb \in BlockingFromJson, order))
  /\ js_stage' = "done"
  /\ UNCHANGED <<js_cb, js_in>>
  /\ UNCHANGED <<pc, args, file, env, main, action_list, menu_output, clipboard, events,
                 stdout, stderr, exit_code, dispatched>>
  /\ UNCHANGED prettyVars

NextJson == FromJson

SpecJson == InitJson /\ [][NextJson]_vars


----------------------------------------------------------------------------
(* The validation of the clipboard as JSON, with json.loads computed on the *)
(* text.  The texts have no backslash, sign, fraction or literal name.      *)

\* json.decoder.WHITESPACE.match(s, i).end()
RECURSIVE SkipSpace(_, _)
SkipSpace(s, i) ==
  IF i <= Len(s) /\ s[i] \in {" ", "\t", "\n", "\r"} THEN SkipSpace(s, i + 1) ELSE i

\* json.JSONDecodeError, a ValueError; a scan gives the value and the index
\* after it.
ScanFailed == [v |-> J("raise", "ValueError"), end |-> 1]

\* json.decoder.scanstring from the quotation mark at i: the text up to the
\* next quotation mark.
ScanString(s, i) ==
  LET close == {j \in (i + 1)..Len(s) : s[j] = "\""}
      upto(j) == [v |-> J("str", SubSeq(s, i + 1, j - 1)), end |-> j + 1]
  IN  IF close = {} THEN ScanFailed ELSE upto(CHOOSE j \in close : \A k \in close : j <= k)

\* json.scanner.NUMBER_RE from the digit at i: 0, or the digits that follow a
\* digit that is not 0.
ScanNumber(s, i) ==
  LET stops == {j \in (i + 1)..(Len(s) + 1) : j > Len(s) \/ ~IsDigit(s[j])}
      digit(c) == Ord(c) - Ord("0")
      value[n \in 0..Len(s)] == IF n = 0 THEN 0 ELSE 10 * value[n - 1] + digit(s[i + n - 1])
      upto(end) == [v |-> J("int", value[end - i]), end |-> end]
  IN  upto(IF s[i] = "0" THEN i + 1 ELSE CHOOSE j \in stops : \A k \in stops : j <= k)

RECURSIVE ScanValue(_, _)
RECURSIVE ScanItems(_, _, _)
RECURSIVE ScanPairs(_, _, _)

\* json.decoder.JSONArray: the value at i, then a comma and the next value, or
\* the bracket that closes the array.
ScanItems(s, i, items) ==
  LET next(r, j) ==
        IF r.v.t = "raise" \/ j > Len(s) THEN ScanFailed
        ELSE IF s[j] = "," THEN ScanItems(s, SkipSpace(s, j + 1), Append(items, r.v))
        ELSE IF s[j] = "]" THEN [v |-> J("list", Append(items, r.v)), end |-> j + 1]
        ELSE ScanFailed
      after(r) == next(r, SkipSpace(s, r.end))
  IN  after(ScanValue(s, i))

\* json.decoder.JSONObject: the key at i, a colon and a value, then a comma
\* and the next key, or the brace that closes the object.  A key that comes
\* again keeps its place and takes the new value.
ScanPairs(s, i, pairs) ==
  LET put(k, x) ==
        IF \E n \in DOMAIN pairs : pairs[n].k = k
        THEN [n \in DOMAIN pairs |-> IF pairs[n].k = k THEN [k |-> k, v |-> x] ELSE pairs[n]]
        ELSE Append(pairs, [k |-> k, v |-> x])
      next(key, r, j) ==
        IF r.v.t = "raise" \/ j > Len(s) THEN ScanFailed
        ELSE IF s[j] = "," THEN ScanPairs(s, SkipSpace(s, j + 1), put(key.v.v, r.v))
        ELSE IF s[j] = "}" THEN [v |-> J("dict", put(key.v.v, r.v)), end |-> j + 1]
        ELSE ScanFailed
      value(key, r) == next(key, r, SkipSpace(s, r.end))
      colon(key, j) ==
        IF j > Len(s) \/ s[j] # ":" THEN ScanFailed
        ELSE value(key, ScanValue(s, SkipSpace(s, j + 1)))
      after(key) == IF key.v.t = "raise" THEN ScanFailed ELSE colon(key, SkipSpace(s, key.end))
  IN  IF i > Len(s) \/ s[i] # "\"" THEN ScanFailed ELSE after(ScanString(s, i))

\* json.scanner.py_make_scanner._scan_once
ScanValue(s, i) ==
  LET array(j) == IF j <= Len(s) /\ s[j] = "]" THEN [v |-> J("list", <<>>), end |-> j + 1]
                  ELSE ScanItems(s, j, <<>>)
      object(j) == IF j <= Len(s) /\ s[j] = "}" THEN [v |-> J("dict", <<>>), end |-> j + 1]
                   ELSE ScanPairs(s, j, <<>>)
  IN  IF i > Len(s) THEN ScanFailed
      ELSE IF s[i] = "\"" THEN ScanString(s, i)
      ELSE IF s[i] = "[" THEN array(SkipSpace(s, i + 1))
      ELSE IF s[i] = "{" THEN object(SkipSpace(s, i + 1))
      ELSE IF IsDigit(s[i]) THEN ScanNumber(s, i)
      ELSE ScanFailed

\* json.loads(s, strict=False) for a text s: one value, with nothing but
\* white space around it.
json_loads(s) ==
  LET whole(r, end) == IF r.v.t # "raise" /\ end = Len(s) + 1 THEN r.v
                       ELSE J("raise", "ValueError")
      rest(r) == whole(r, SkipSpace(s, r.end))
  IN  rest(ScanValue(s, SkipSpace(s, 1)))

\* Actions._json_notify_and_exit_when_invalid, lines 1921-1924: the loop that
\* parses again what is not yet a dict or a list, _try times at most;
\* json.loads raises TypeError for a value that is not a text.
RECURSIVE LoadAgain(_, _)
LoadAgain(new, _try) ==
  IF new.t \in {"raise", "dict", "list"} \/ _try = 0 THEN new
  ELSE IF new.t # "str" THEN J("raise", "TypeError")
  ELSE LoadAgain(json_loads(new.v), _try - 1)

\* Actions._json_notify_and_exit_when_invalid(manual_input) with json.loads
\* computed: the value returned is the parsed value; a TypeError is not caught
\* by `except ValueError` and leaves the function.
ValidateJson(w, manual_input) ==
  LET verdict(w1, json_dict) ==
        IF json_dict.t = "raise" /\ json_dict.v = "TypeError" THEN Raise(w1, "TypeError")
        ELSE IF json_dict.t = "raise" \/ ~JTruthy(json_dict)
                \/ json_dict.t \notin {"dict", "list"}
        THEN display_notification_error(w1, <<"Invalid JSON !!!!!!!!!!">>, ErrorPrefix)
        ELSE Return(w1, json_dict)
      chop(s) == IF s # <<>> /\ s[Len(s)] = "%" THEN SubSeq(s, 1, Len(s) - 1) ELSE s
      K(r1) == verdict(r1.w, LoadAgain(json_loads(chop(r1.val)), 5))
  IN  Bind(IF Truthy(manual_input) THEN Return(w, manual_input[1])
           ELSE read_clipboard(w, TRUE, FALSE), K)

\* The longest clipboard text drawn from the alphabet.
MaxJsonTextLen == 4

\* The clipboard texts: those over the alphabet, and {"a":1}, {"a":1}% and
\* "[1]".
JsonTexts ==
  UNION {[1..n -> {"[", "]", "{", "}", "1", "0", "\"", ",", "%", " "}] :
           n \in 0..MaxJsonTextLen}
  \cup { <<"{", "\"", "a", "\"", ":", "1", "}">>,
         <<"{", "\"", "a", "\"", ":", "1", "}", "%">>,
         <<"\"", "[", "1", "]", "\"">>,
         <<"{", "\"", "a", "\"", ":", "1", ",", " ", "\"", "a", "\"", ":", "[", "]", "}">> }

\* A callback that validates the clipboard is about to run: a from_json
\* action, which reads the clipboard and hands the text over, or 'JSON
\* sanitize', which lets the validation read it.
InitValidate ==
  /\ pc = "off"
  /\ args = [action |-> None, list_actions |-> FALSE]
  /\ file = EmptyIni
  /\ env = [images_readable |-> TRUE, oracle |-> "ok"]
  /\ main = NoConfig
  /\ action_list = [k \in {} |-> <<>>]
  /\ menu_output = <<>>
  /\ clipboard \in JsonTexts
  /\ events = <<>>
  /\ stdout = <<>>
  /\ stderr = <<>>
  /\ exit_code = None
  /\ dispatched = <<>>
  /\ pp_stage = "off"
  /\ pp_in = <<>>
  /\ pp_wrap = 0
  /\ pp_out1 = <<>>
  /\ pp_out2 = <<>>
  /\ js_stage = "validate"
  /\ js_cb \in {"action_spark_from_json", "sanitize_logichub_json"}
  /\ js_in = J("null", <<>>)
  /\ js_out = Return(World(<<>>, <<>>), <<>>)

\* The callback up to the return of _json_notify_and_exit_when_invalid, and
\* the handler of execute_plugin for what it raises.
Validate ==
  /\ js_stage = "validate"
  /\ LET except(r) == IF r.ctl = "raise" THEN fail_action_with_exception(r.w, main, r.exc)
                      ELSE r
         K(r1) == ValidateJson(r1.w, Some(RemoveChar(r1.val, "'")))
     IN  js_out' = except(IF js_cb \in FromJsonCallbacks
                          THEN Bind(read_clipboard(World(clipboard, <<>>), TRUE, FALSE), K)
                          ELSE ValidateJson(World(clipboard, <<>>), None))
  /\ js_stage' = "validated"
  /\ UNCHANGED <<js_cb, js_in>>
  /\ UNCHANGED <<pc, args, file, env, main, action_list, menu_output, clipboard, events,
                 stdout, stderr, exit_code, dispatched>>
  /\ UNCHANGED prettyVars

NextValidate == Validate

SpecValidate == InitValidate /\ [][NextValidate]_vars
----------------------------------------------------------------------------
(* The properties of a run.                                                 *)

EventKinds == {events[i].t : i \in DOMAIN events}

ClipboardRead == "read" \in EventKinds

ClipboardWritten == "write" \in EventKinds

Notified == "notify" \in EventKinds

\* The beep that only display_notification_error makes.
ErrorNotified == "beep" \in EventKinds

MenuPrinted == \E i \in DOMAIN stdout : stdout[i].what = "menu"

ListPrinted == \E i \in DOMAIN stdout : stdout[i].what = "list"

\* Config() and Actions(config) both succeeded.
StartedUp == DOMAIN action_list # {}

NoActionArgument == args.action \in {None, Some(<<>>)}

ConfigMissing == DOMAIN file = {}

RepoPathUnset ==
  \/ "main" \notin DOMAIN file
  \/ "repo_path" \notin DOMAIN file.main
  \/ file.main.repo_path = <<>>

\* The run is about to call a callback of the dispatch table.
Dispatching ==
  /\ pc = "constructed"
  /\ ~args.list_actions
  /\ ~NoActionArgument
  /\ Sanitize(args.action[1]) \in DOMAIN action_list

EndsWithErrorNotification(ev) ==
  /\ Len(ev) >= 2
  /\ ev[Len(ev) - 1].t = "beep"
  /\ ev[Len(ev)].t = "notify"

\* C1: a run that lists the actions, and a run whose callback ends without an
\* error notification, exit with code 0; a run that notifies an error (a failed
\* validation, or an exception the callback raised) and a run ended by an
\* exception nothing catches exit with code 1.
C1_ExitCodes ==
  pc = "exited" =>
    /\ (ListPrinted \/ (dispatched # <<>> /\ ~ErrorNotified)) => exit_code = Some(0)
    /\ (ErrorNotified \/ stderr # <<>>) => exit_code = Some(1)

\* C1: a callback failed its validation and the run exited with 1.
C1_Witness ==
  /\ pc = "exited"
  /\ dispatched # <<>>
  /\ ErrorNotified
  /\ ~ClipboardWritten
  /\ exit_code = Some(1)

\* C2, as the specification states it: every failing run copies a diagnostic to
\* the clipboard, emits a notification and exits with a non-zero code.
C2_AllThree ==
  (pc = "exited" /\ exit_code # Some(0)) =>
    /\ ClipboardWritten
    /\ Notified
    /\ exit_code = Some(1)

\* The step that ends a failing run.  The notification of
\* fail_action_with_exception names the exception; r is what the callback
\* does by itself, before execute_plugin handles what it raises.
C2_FailureStep ==
  (pc # "exited" /\ pc' = "exited" /\ exit_code' # Some(0)) =>
    /\ exit_code' = Some(1)
    /\ IF Dispatching
       THEN LET cb == action_list[Sanitize(args.action[1])].action
                r == RunCallback(World(clipboard, events), main, cb, env.oracle)
                n == Len(events')
                said == events'[n].text
                byException == said[1] = "Failed with an exception ("
                trace == <<"Traceback: ", said[2]>>
            IN  /\ EndsWithErrorNotification(events')
                /\ r.ctl = "raise" => (byException /\ said[2] = r.exc)
                /\ IF byException
                   THEN /\ clipboard' = trace
                        /\ n >= 3
                        /\ events'[n - 2] = [t |-> "write", text |-> trace]
                   ELSE \/ /\ clipboard' = clipboard
                           /\ \A i \in DOMAIN events' : events'[i].t # "write"
                        \/ /\ env.oracle = "invalid_key"
                           /\ cb \in BlockingFromJson
       ELSE /\ events' = events
            /\ clipboard' = clipboard

\* C2, amended: every failing run exits with code 1.  When the callback raised
\* an exception, the run copies the trace to the clipboard and then notifies
\* the error.  When the callback's validation failed, the run notifies the
\* error and copies no trace: the clipboard stays as it was, except that
\* from_json copies its message about an invalid key.  A run that fails for an
\* unknown action, or in Config() or Actions(config), touches neither the
\* clipboard nor the notifications.
C2_Failures == [][C2_FailureStep]_vars

\* C2: a callback's validation failed; the run notified and exited with 1, and
\* the clipboard was not written.
C2_Witness ==
  /\ pc = "exited"
  /\ exit_code = Some(1)
  /\ dispatched # <<>>
  /\ EndsWithErrorNotification(events)
  /\ ClipboardRead
  /\ ~ClipboardWritten

\* C3: after the constructor, the dispatch table has as many entries as there
\* are make_action calls with a callback, and each such call finds its own
\* name and callback under its own identifier.
C3_UniqueIdentifiers ==
  StartedUp =>
    /\ Cardinality(DOMAIN action_list) = Cardinality(Registrations)
    /\ \A n \in Registrations :
         LET id == Sanitize(InitProgram[n].name)
         IN  /\ id \in DOMAIN action_list
             /\ action_list[id] = ActionObject(id, InitProgram[n].name, InitProgram[n].action)

\* C3: the constructor has filled the dispatch table.
C3_Witness ==
  /\ pc = "constructed"
  /\ Cardinality(DOMAIN action_list) > 100

\* C4: a run calls at most one callback through the dispatch table, and the
\* process has ended, with an exit code, once the call is over.
C4_OneDispatch ==
  /\ Len(dispatched) <= 1
  /\ dispatched # <<>> => (pc = "exited" /\ ~IsNone(exit_code))

\* C4: a callback was invoked and the process ended.
C4_Witness ==
  /\ Len(dispatched) = 1
  /\ pc = "exited"
  /\ exit_code = Some(0)
  /\ ClipboardWritten

\* C5: with --list, once Config() and Actions(config) have succeeded, the run
\* prints one entry (name, identifier, callback) per key of the dispatch table
\* in ascending order of identifier and nothing else, exits with 0, invokes no
\* callback and neither reads nor writes the clipboard, whether or not an
\* action argument is supplied.
C5_Listing ==
  (pc = "exited" /\ args.list_actions /\ StartedUp) =>
    /\ exit_code = Some(0)
    /\ dispatched = <<>>
    /\ events = <<>>
    /\ Len(stdout) = 1
    /\ stdout[1].what = "list"
    /\ LET listing == stdout[1].body
       IN  /\ Len(listing) = Cardinality(DOMAIN action_list)
           /\ \A k \in DOMAIN action_list : \E i \in DOMAIN listing : listing[i].id = k
           /\ \A i \in DOMAIN listing :
                /\ listing[i].id \in DOMAIN action_list
                /\ listing[i] = action_list[listing[i].id]
                /\ i < Len(listing) => StrLess(listing[i].id, listing[i + 1].id)

\* C5: a --list run that was also given an action argument has ended.
C5_Witness ==
  /\ pc = "exited"
  /\ args.list_actions
  /\ ~NoActionArgument
  /\ ListPrinted

\* C6: when the ini file is missing or empty, or gives no repo_path, the run
\* ends in Config() with exit code 1: no menu line is built, the dispatch
\* table stays empty, no callback is invoked and nothing is printed but the
\* message of Config().
C6_ConfigFirst ==
  (pc # "main" /\ (ConfigMissing \/ RepoPathUnset)) =>
    /\ pc = "exited"
    /\ exit_code = Some(1)
    /\ menu_output = <<>>
    /\ DOMAIN action_list = {}
    /\ dispatched = <<>>
    /\ events = <<>>
    /\ ~MenuPrinted
    /\ ~ListPrinted

\* C6: a run with an ini file that has no repo_path, given an action, has ended.
C6_Witness ==
  /\ pc = "exited"
  /\ ~ConfigMissing
  /\ RepoPathUnset
  /\ ~NoActionArgument

\* C7: every menu line that carries param1 names a key of the dispatch table,
\* the entry under that key holds the callback of the make_action call that
\* printed the line, and a run given that param1 invokes that callback and no
\* other.
C7_MenuLinesDispatch ==
  \A i \in DOMAIN menu_output :
    LET line == menu_output[i]
    IN  ~IsNone(line.param1) =>
          /\ line.param1[1] \in DOMAIN action_list
          /\ action_list[line.param1[1]].action = InitProgram[line.stmt].action
          /\ (pc = "exited" /\ ~args.list_actions /\ args.action = line.param1) =>
               dispatched = <<InitProgram[line.stmt].action>>

\* C7: a run given the param1 of a menu line has invoked a callback.
C7_Witness ==
  /\ pc = "exited"
  /\ dispatched # <<>>
  /\ \E i \in DOMAIN menu_output : menu_output[i].param1 = args.action

C9_ErrorNotificationIsLast ==
  \A i \in DOMAIN events :
    events[i].t = "beep" =>
      /\ i + 1 = Len(events)
      /\ events[i + 1].t = "notify"
      /\ pc = "exited"
      /\ exit_code = Some(1)
      /\ stderr = <<>>

\* C9: dict_merge raised TypeError in action_spark_from_json; the handler of
\* execute_plugin called fail_action_with_exception, and the run has ended
\* with the trace in the clipboard.
C9_Witness ==
  /\ pc = "exited"
  /\ dispatched = <<"action_spark_from_json">>
  /\ ErrorNotified
  /\ clipboard = <<"Traceback: ", "TypeError">>

\* C10, as the specification states it: pretty-printing the output of
\* pretty_print_sql again, with the same wrap setting, gives the same text.
C10_Idempotent == pp_stage = "twice" => pp_out2 = pp_out1


----------------------------------------------------------------------------
(* Runs of SpecClipboard.                                                   *)

\* The step of execute_plugin that invokes the callback cb.
Invokes(cb) == pc = "constructed" /\ dispatched = <<>> /\ dispatched' = <<cb>>

\* The column names of a text that is a list delimited by tabs and other
\* whitespace: its maximal runs of characters that are not whitespace.
ColumnNames(text) ==
  LET starts == {i \in DOMAIN text :
                   ~IsSpace(text[i]) /\ (i = 1 \/ IsSpace(text[i - 1]))}
      end(i) == CHOOSE j \in i..Len(text) :
                  /\ \A k \in i..j : ~IsSpace(text[k])
                  /\ (j = Len(text) \/ IsSpace(text[j + 1]))
  IN  {SubSeq(text, i, end(i)) : i \in starts}

\* How often the name x stands in the text as a column name.
ColumnCount(text, x) ==
  Cardinality({i \in DOMAIN text :
                 /\ ~IsSpace(text[i]) /\ (i = 1 \/ IsSpace(text[i - 1]))
                 /\ i + Len(x) - 1 <= Len(text)
                 /\ SubSeq(text, i, i + Len(x) - 1) = x
                 /\ (i + Len(x) - 1 = Len(text) \/ IsSpace(text[i + Len(x)]))})

\* A text is a list of column names when it has one at least and none of its
\* characters is one the action takes for a delimiter besides whitespace.
IsColumnList(text) ==
  /\ \E i \in DOMAIN text : ~IsSpace(text[i])
  /\ \A i \in DOMAIN text : text[i] \notin {",", "\"", "|", "'"}

\* The names, each in double quotes, separated by a comma and a space.
RECURSIVE QuotedList(_)
QuotedList(cols) ==
  IF cols = <<>> THEN <<>>
  ELSE <<"\"">> \o Head(cols) \o <<"\"">>
       \o (IF Len(cols) > 1 THEN <<",", " ">> ELSE <<>>) \o QuotedList(Tail(cols))

----------------------------------------------------------------------------
(* Notifications, the status bar, and the action argument.                  *)

\* clipboard_update_notifications, as write_clipboard tests it
NotificationsEnabled == IsTrue(main.clipboard_update_notifications)

\* C12: with clipboard_update_notifications enabled, every write to the
\* clipboard is followed by a notification in the same run; with it disabled,
\* no notification says 'Clipboard updated'.
C12_WritesAreNotified ==
  /\ NotificationsEnabled =>
       \A i \in DOMAIN events :
         events[i].t = "write" =>
           /\ \E j \in (i + 1)..Len(events) : events[j].t = "notify"
           /\ pc = "exited"
  /\ ~NotificationsEnabled =>
       \A i \in DOMAIN events :
         ~(events[i].t = "notify" /\ events[i].text = <<"Clipboard updated">>)

\* C12: notifications are enabled, and the run wrote the clipboard and then
\* said so.
C12_Witness ==
  /\ pc = "exited"
  /\ NotificationsEnabled
  /\ \E i \in DOMAIN events :
       /\ events[i].t = "write"
       /\ i < Len(events)
       /\ events[i + 1] = [t |-> "notify", text |-> <<"Clipboard updated">>]

\* C13: the first line of the menu buffer is the status-bar line, and
\* status_bar_style determines it: 'logo' gives the image with neither label nor
\* colour, 'text' the label and the colour, 'both' the label, the image and the
\* colour, 'custom' the label alone, with nothing appended.
C13_StatusBarLine ==
  menu_output # <<>> =>
    LET line == menu_output[1]
        style == main.status_bar_style
        label == main.status_bar_label
        colour == Some(main.status_bar_text_color)
    IN  /\ line.kind = "status"
        /\ style = <<"l","o","g","o">> =>
             line.label = <<"|">> /\ line.image /\ line.color = None
        /\ style = <<"t","e","x","t">> =>
             line.label = label \o <<"|">> /\ ~line.image /\ line.color = colour
        /\ style = <<"b","o","t","h">> =>
             line.label = label \o <<"|">> /\ line.image /\ line.color = colour
        /\ style = <<"c","u","s","t","o","m">> =>
             line.label = label /\ ~line.image /\ line.color = None

\* C13: the menu was built with the style 'custom'.
C13_Witness ==
  /\ MenuPrinted
  /\ main.status_bar_style = <<"c","u","s","t","o","m">>
  /\ menu_output[1].label = <<"L","H",":","|"," ","c","o","l","o","r","=","r","e","d">>

\* C15: when the action argument is the display name of a registered action
\* whose identifier was derived from that name, or is that identifier, the
\* run dispatches the callback registered under the identifier; and
\* sanitizing the identifier gives the identifier.
C15_NameOrIdentifier ==
  [][(pc = "constructed" /\ pc' = "exited" /\ ~args.list_actions)
       => \A k \in DOMAIN action_list :
            LET a == action_list[k]
            IN  a.id = Sanitize(a.name) =>
                  /\ Sanitize(a.id) = a.id
                  /\ args.action \in {Some(a.name), Some(a.id)} => dispatched' = <<a.action>>]_vars

\* C15: the argument was a display name that is not an identifier, and its
\* callback was dispatched.
C15_Witness ==
  /\ pc = "exited"
  /\ Truthy(args.action)
  /\ Sanitize(args.action[1]) # args.action[1]
  /\ dispatched = <<"logichub_dsl_batch_info">>

\* C16: when the callback raises an exception, the run writes the trace to the
\* clipboard, then beeps and notifies one error that names the exception, and
\* exits with code 1; no 'Clipboard updated' notification follows the trace
\* and nothing is written after it.
C16_RaisedException ==
  [][(Dispatching /\ pc' = "exited")
       => LET cb == action_list[Sanitize(args.action[1])].action
              r == RunCallback(World(clipboard, events), main, cb, env.oracle)
              trace == <<"Traceback: ", r.exc>>
          IN  r.ctl = "raise" =>
                /\ events' = r.w.ev \o
                     << [t |-> "write", text |-> trace],
                        [t |-> "beep", text |-> <<>>],
                        [t |-> "notify",
                         text |-> <<"Failed with an exception (", r.exc,
                                    "): check traceback in clipboard">>] >>
                /\ Cardinality({i \in DOMAIN events' : events'[i].t = "beep"}) = 1
                /\ clipboard' = trace
                /\ exit_code' = Some(1)]_vars

\* C16: with notifications enabled, a callback raised KeyError; the trace is in
\* the clipboard and the last notification is the error.
C16_Witness ==
  /\ pc = "exited"
  /\ NotificationsEnabled
  /\ exit_code = Some(1)
  /\ clipboard = <<"Traceback: ", "KeyError">>
  /\ events[Len(events)].text[2] = "KeyError"

----------------------------------------------------------------------------
(* Actions that validate what they read from the clipboard.                 *)

\* The run ended in display_notification_error with this message, read the
\* clipboard and left it as it was.
FailsWith(message) ==
  /\ exit_code' = Some(1)
  /\ clipboard' = clipboard
  /\ \A i \in DOMAIN events' : events'[i].t # "write"
  /\ EndsWithErrorNotification(events')
  /\ events'[Len(events')].text = <<"Failed with error: ">> \o message

\* C17, as the specification states it: every action that builds its output
\* from a table name in the clipboard, 'SQL New (from table name)' among them,
\* fails with an error notification and exit code 1 and leaves the clipboard
\* as it is when the trimmed clipboard text contains whitespace.
C17_NoSpacesInTableName ==
  [][\A cb \in TableNameCallbacks :
       (Invokes(cb) /\ \E i \in DOMAIN Strip(clipboard) : IsSpace(Strip(clipboard)[i]))
         => FailsWith(<<"Invalid input; table name cannot contain spaces">>)]_vars

\* C18, as the specification states it: the 'Upgrade Command (from milestone
\* version in clipboard)' actions write the installer command of the version
\* in the clipboard when that text, trimmed, lower-cased and without its 'm's,
\* is two or more digits, a dot and one or more digits; for every other
\* clipboard text they report 'Invalid LogicHub version', exit with code 1 and
\* leave the clipboard as it is.
C18_MilestoneVersionOnly ==
  [][\A cb \in UpgradeFromClipboardCallbacks :
       Invokes(cb) =>
         LET version == Strip(RemoveChar(Lower(Strip(clipboard)), "m"))
             digits(s) == s # <<>> /\ \A i \in DOMAIN s : IsDigit(s[i])
             valid == \E p \in DOMAIN version :
                        /\ version[p] = "."
                        /\ digits(SubSeq(version, 1, p - 1)) /\ p - 1 >= 2
                        /\ digits(SubSeq(version, p + 1, Len(version)))
             n == Len(clipboard')
         IN  IF valid
             THEN /\ exit_code' = Some(0)
                  /\ n >= Len(version) + 2
                  /\ SubSeq(clipboard', n - Len(version) - 1, n)
                       = <<"bash <(curl .../installer-m">> \o version \o <<".sh)">>
             ELSE FailsWith(<<"Invalid LogicHub version (">> \o version \o <<")">>)]_vars

----------------------------------------------------------------------------
(* The from_json actions (SpecJson).                                        *)

\* The text the action wrote is a FROM_JSON expression.
WroteFromJson ==
  /\ js_stage = "done"
  /\ js_out.w.clip # <<>>
  /\ js_out.w.clip[1] = "FROM_JSON(result, '"

\* name: type, name: type, ...
RECURSIVE FieldList(_, _)
FieldList(names, types) ==
  IF names = <<>> THEN <<>>
  ELSE Head(names) \o <<": ">> \o Head(types)
       \o (IF Len(names) > 1 THEN <<", ">> ELSE <<>>) \o FieldList(Tail(names), Tail(types))

SparkTypes ==
  {<<"STRING">>, <<"BOOLEAN">>, <<"DOUBLE">>, <<"BIGINT">>, <<"ARRAY<", "STRING", ">">>}

\* C14, as the specification states it: for a JSON object, the expression that
\* a 'from_json: no recursion' action writes is a struct of the root keys
\* alone, in which every key whose value is an object has the type STRING and
\* every key whose value is an array has the type ARRAY<STRING>.
C14_RootKeysOnly ==
  (WroteFromJson /\ js_cb \notin RecursiveFromJson /\ js_in.t = "dict") =>
    LET root == js_in.v
        names == [i \in DOMAIN root |-> root[i].k]
    IN  \E types \in [DOMAIN root -> SparkTypes] :
          /\ js_out.w.clip = <<"FROM_JSON(result, '", "STRUCT<">> \o FieldList(names, types)
                               \o <<">", "') AS result_struct">>
          /\ \A i \in DOMAIN root :
               /\ root[i].v.t = "dict" => types[i] = <<"STRING">>
               /\ root[i].v.t = "list" => types[i] = <<"ARRAY<", "STRING", ">">>

\* The keys of a value, at every depth.
RECURSIVE FieldNames(_)
FieldNames(value) ==
  IF value.t = "dict"
  THEN UNION {{value.v[i].k} \cup FieldNames(value.v[i].v) : i \in DOMAIN value.v}
  ELSE IF value.t = "list" THEN UNION {FieldNames(value.v[i]) : i \in DOMAIN value.v}
  ELSE {}

\* The field names with a non-word character that the expression for js_in
\* would have: those of the stripped value, flattened when the action does not
\* recurse.
OffendingKeys ==
  LET stripped == run_strip(js_in)
      formatted == IF js_cb \in RecursiveFromJson THEN stripped ELSE flatten(stripped)
  IN  {k \in FieldNames(formatted) : \E c \in DOMAIN k : ~IsWord(k[c])}

\* C20: a from_json action that blocks invalid keys writes no FROM_JSON
\* expression in which a field name has a non-word character (in the text of
\* the model only the characters of field names are single characters, apart
\* from the ">" that closes a type); when the expression would have such
\* names, the clipboard gets the 'INVALID KEY IN JSON' message that lists
\* exactly them, without a 'Clipboard updated' notification, the error is
\* notified, and the process exits with code 1.
C20_InvalidKeysBlocked ==
  (js_stage = "done" /\ js_cb \in BlockingFromJson) =>
    LET text == js_out.w.clip
    IN  /\ WroteFromJson =>
             \A i \in DOMAIN text :
               (text[i] \in DOMAIN CodePoints /\ text[i] # ">") => IsWord(text[i])
        /\ OffendingKeys # {} =>
             \E order \in Orders(OffendingKeys) :
               LET error == <<"INVALID KEY IN JSON: ">> \o Join(<<", ">>, order)
                   message == <<"\n***** ">> \o error \o <<" *****\n\n">>
               IN  /\ text = message
                   /\ js_out.w.ev = << [t |-> "write", text |-> message],
                                       [t |-> "beep", text |-> <<>>],
                                       [t |-> "notify",
                                        text |-> <<"Failed with error: ">> \o error] >>
                   /\ js_out.ctl = "exit"
                   /\ js_out.code = 1

\* C20: 'from_json: no recursion' on {"c ": ..., "d-": ["s"]}, with
\* notifications enabled: the message names the two keys and the run ended
\* with exit code 1.
C20_Witness ==
  /\ js_stage = "done"
  /\ js_cb = "action_spark_from_json_non_recursive"
  /\ NotificationsEnabled
  /\ OffendingKeys = {<<"c", " ">>, <<"d", "-">>}
  /\ js_out.ctl = "exit"
  /\ js_out.code = 1
  /\ js_out.w.clip[2] = "INVALID KEY IN JSON: "

\* Whether stripped has a one-element array wherever input has an array, at
\* the root and under the keys of objects at every depth.
RECURSIVE ArraysKept(_, _)
ArraysKept(input, stripped) ==
  IF input.t = "list" THEN stripped.t = "list" /\ Len(stripped.v) = 1
  ELSE IF input.t = "dict" /\ input.v # <<>>
  THEN /\ stripped.t = "dict"
       /\ Len(stripped.v) = Len(input.v)
       /\ \A i \in DOMAIN input.v : ArraysKept(input.v[i].v, stripped.v[i].v)
  ELSE TRUE

\* C21, as the specification states it: the type-stripping helper maps every
\* array of its input (empty, homogeneous or mixed) to a one-element array,
\* and the expression a from_json action writes for an array at the root
\* starts with ARRAY<.
C21_ArraysKeepShape ==
  (js_stage = "done" /\ run_strip(js_in).t # "raise") =>
    /\ ArraysKept(js_in, run_strip(js_in))
    /\ (WroteFromJson /\ js_in.t = "list") =>
         /\ Len(js_out.w.clip) >= 2
         /\ js_out.w.clip[2] = "ARRAY<"

----------------------------------------------------------------------------
(* The validation of the clipboard as JSON (SpecValidate).                  *)

\* The run ended in the validation: 'Invalid JSON' was notified after a beep,
\* nothing was written to the clipboard, and the exit code is 1.
EndedAsInvalidJson ==
  /\ js_out.ctl = "exit"
  /\ js_out.code = 1
  /\ js_out.w.clip = clipboard
  /\ Len(js_out.w.ev) >= 2
  /\ js_out.w.ev[Len(js_out.w.ev) - 1] = [t |-> "beep", text |-> <<>>]
  /\ js_out.w.ev[Len(js_out.w.ev)] =
       [t |-> "notify", text |-> <<"Failed with error: ", "Invalid JSON !!!!!!!!!!">>]
  /\ \A i \in DOMAIN js_out.w.ev : js_out.w.ev[i].t # "write"

\* C22, as the specification states it: when the clipboard text is valid JSON
\* the validation returns the parsed value to the action, and when it is not
\* an 'Invalid JSON' error is notified and the process exits with code 1
\* from the validation, not from the handler of unexpected exceptions.
C22_ExactlyValidJson ==
  js_stage = "validated" =>
    IF json_loads(clipboard).t # "raise"
    THEN js_out.ctl = "return" /\ js_out.val = json_loads(clipboard)
    ELSE EndedAsInvalidJson

----------------------------------------------------------------------------
(* The last step of pretty_print_sql (SpecPretty).                          *)

\* The text s from its i-th character on, in which every arithmetic operator
\* that follows a word character and precedes a digit stands between two
\* spaces, before the same digit.
RECURSIVE MathSpacedOut(_, _)
MathSpacedOut(s, i) ==
  IF i > Len(s) THEN <<>>
  ELSE IF /\ i > 1
          /\ i < Len(s)
          /\ IsWord(s[i - 1])
          /\ s[i] \in {"-", "+", "*", "/"}
          /\ IsDigit(s[i + 1])
       THEN <<" ", s[i], " ", s[i + 1]>> \o MathSpacedOut(s, i + 2)
       ELSE <<s[i]>> \o MathSpacedOut(s, i + 1)

\* C23, as the specification states it: the last step of pretty_print_sql
\* rewrites an arithmetic operator between a word character and a digit as a
\* space, the operator, a space and the digit, and changes nothing else of
\* the text.
C23_MathSpacedOut ==
  pp_stage \in {"once", "twice"} =>
    pp_out1 = MathSpacedOut(FormattedText(pp_in, pp_wrap), 1)

----------------------------------------------------------------------------
(* Actions that the dispatch table does not have (Spec).                    *)

\* The step ends the run as execute_plugin does for an action it does not
\* know: the exception 'Not a valid action' is on stderr, the exit code is 1,
\* no callback was invoked and the clipboard was neither read nor written.
RefusedAsNotValid ==
  /\ pc' = "exited"
  /\ exit_code' = Some(1)
  /\ stderr' = Append(stderr, "Exception: Not a valid action")
  /\ dispatched' = dispatched
  /\ events' = events
  /\ clipboard' = clipboard

\* C24, as the specification states it: when the action argument, its
\* non-word characters replaced by underscores, is not a key of the dispatch
\* table, execute_plugin invokes no callback, leaves the clipboard alone and
\* the run ends with the exception 'Not a valid action' and exit code 1.
C24_AnyUnknownAction ==
  [][(/\ pc = "constructed"
      /\ ~args.list_actions
      /\ ~IsNone(args.action)
      /\ Sanitize(args.action[1]) \notin DOMAIN action_list) => RefusedAsNotValid]_vars

\* C24, amended: the same for an action argument that is not the empty text
\* (execute_plugin prints the menu for an empty argument, as it does for a
\* missing one).
C24_UnknownAction ==
  [][(/\ pc = "constructed"
      /\ ~args.list_actions
      /\ Truthy(args.action)
      /\ Sanitize(args.action[1]) \notin DOMAIN action_list) => RefusedAsNotValid]_vars

\* C24: a run with an action argument that names no action has ended with
\* the exception and exit code 1, with the dispatch table built, no callback
\* invoked and no effect on the clipboard.
C24_Witness ==
  /\ pc = "exited"
  /\ Truthy(args.action)
  /\ action_list # [k \in {} |-> <<>>]
  /\ Sanitize(args.action[1]) \notin DOMAIN action_list
  /\ stderr = <<"Exception: Not a valid action">>
  /\ exit_code = Some(1)
  /\ dispatched = <<>>
  /\ events = <<>>
=============================================================================
